---------------------------- MODULE Spec2Model ----------------------------
(***************************************************************************)
(* Expense manager backend: the relational store (users, categories,       *)
(* teams, budgets, expenses) and the handlers that write and aggregate it: *)
(* createBudget, createExpense, getBudgetOverview, getBudgetAnalytics,     *)
(* checkBudgetAlerts and getDashboardStats.                                *)
(*                                                                         *)
(* Representation.  Money is counted in whole currency units.  A           *)
(* percentage is the exact quotient num/den, kept as a record, and is      *)
(* compared by cross-multiplication; the handlers compute it in double     *)
(* precision, whose rounding error is not represented.  A Date is an       *)
(* instant counted in ticks, a `date` column holds a day number, and the   *)
(* handlers' toISOString().split('T')[0] and new Date(str) convert between *)
(* the two.  A null column or absent id is NULL (serial ids start at 1).   *)
(***************************************************************************)
EXTENDS Integers, Sequences, FiniteSets, TLC

VARIABLES users, categories, teams, budgets, expenses,
          nextBudgetId, nextExpenseId,
          tz,        \* the server's local time minus UTC, in ticks
          response,  \* what the last call returned or threw
          inflight,  \* the getDashboardStats call between two of its queries
          accounts,  \* email, password_hash and is_active of each users row
          team_members, notifications,
          serial,    \* the next serial id of users, categories, teams,
                     \* team_members and notifications
          adding     \* the addTeamMember calls between their checks and
                     \* their insert

vars == <<users, categories, teams, budgets, expenses,
          nextBudgetId, nextExpenseId, tz, response, inflight,
          accounts, team_members, notifications, serial, adding>>

store == <<users, categories, teams, budgets, expenses,
           nextBudgetId, nextExpenseId, tz,
           accounts, team_members, notifications, serial>>

\* the tables and calls that the budget and expense handlers leave alone
others == <<accounts, team_members, notifications, serial, adding>>

----------------------------------------------------------------------------
(* Bounds of the model *)

\* rows (budgets and expenses together) the store may hold
MaxRows == 3

\* instants per calendar day
TicksPerDay == 2

----------------------------------------------------------------------------
(* Values *)

NULL == 0

UNDEFINED == -1

\* SQL sum() over no rows
SqlNull == -1

DefaultAlertThreshold == 80

RecentLimit == 5

BudgetPeriod == {"MONTHLY", "YEARLY"}

\* no getDashboardStats call is between two of its queries
Idle == [pc |-> "idle"]

\* the snapshot of the tables a query reads
db == [users |-> users, categories |-> categories, teams |-> teams,
       budgets |-> budgets, expenses |-> expenses]

----------------------------------------------------------------------------
(* Conversions between application types and column representations *)

\* Date -> 'YYYY-MM-DD': the instant's UTC calendar day
ToDateStr(t) == t \div TicksPerDay

\* 'YYYY-MM-DD' -> Date: midnight UTC of that day
FromDateStr(d) == d * TicksPerDay

\* to_char(date, 'YYYY-MM'): days 2k-1 and 2k lie in month k
ToMonth(d) == (d + 1) \div 2

\* getFullYear() and getMonth() + 1: the month of the instant in local time
ToLocalMonth(t, offset) == ToMonth((t + offset) \div TicksPerDay)

\* the orders in which a query without ORDER BY may return the rows S
RECURSIVE Orders(_)
Orders(S) ==
    IF S = {} THEN {<<>>}
    ELSE UNION {{<<x>> \o rest : rest \in Orders(S \ {x})} : x \in S}

\* the sequences over S of length at most n
SeqsUpTo(S, n) == UNION {[1..k -> S] : k \in 0..n}

RECURSIVE SumTotalAmount(_)
SumTotalAmount(groups) ==
    IF groups = <<>> THEN 0
    ELSE Head(groups).total_amount + SumTotalAmount(Tail(groups))

RECURSIVE SumAmount(_)
SumAmount(rows) ==
    IF rows = <<>> THEN 0
    ELSE Head(rows).amount + SumAmount(Tail(rows))

\* SQL sum(amount): null over no rows
sum(rows) == IF rows = <<>> THEN SqlNull ELSE SumAmount(rows)

\* SQL coalesce(sum(amount), 0)
coalesceSum(rows) == IF sum(rows) = SqlNull THEN 0 ELSE sum(rows)

\* (part / whole) * 100
Percent(part, whole) == [num |-> part * 100, den |-> whole]

Zero == [num |-> 0, den |-> 1]

Trunc2(p) == [num |-> (100 * p.num) \div p.den, den |-> 100]

\* Math.round(p * 100) / 100 for p >= 0: halves round up
Round2(p) ==
    [num |-> (2 * 100 * p.num + p.den) \div (2 * p.den), den |-> 100]

convertBudget(dbBudget) ==
    [dbBudget EXCEPT !.start_date = FromDateStr(dbBudget.start_date),
                     !.end_date = FromDateStr(dbBudget.end_date)]

MapSeq(f(_), s) == [i \in 1..Len(s) |-> f(s[i])]

\* pbkdf2Sync(password, salt, ...) taken as free of collisions: the digest
\* stands for the pair it was computed from
pbkdf2Sync(password, salt) == <<password, salt>>

\* `${salt}:${hash}` under the salt that randomBytes drew
hashPassword(password, salt) ==
    [salt |-> salt, hash |-> pbkdf2Sync(password, salt)]

verifyPassword(password, hashedPassword) ==
    hashedPassword.hash = pbkdf2Sync(password, hashedPassword.salt)

----------------------------------------------------------------------------
(* Handlers that write the store *)

Thrown(op, msg) == [op |-> op, error |-> msg]

Returned(op, value) == [op |-> op, error |-> "", result |-> value]

createBudgetRow(input) ==
    [id |-> nextBudgetId,
     user_id |-> input.user_id,
     category_id |-> IF input.category_id \in {NULL, UNDEFINED}
                     THEN NULL ELSE input.category_id,
     amount |-> input.amount,
     period |-> input.period,
     start_date |-> ToDateStr(input.start_date),
     end_date |-> ToDateStr(input.end_date),
     alert_threshold |-> IF input.alert_threshold \in {0, UNDEFINED}
                         THEN DefaultAlertThreshold
                         ELSE input.alert_threshold]

createBudget(input) ==
    /\ Len(budgets) + Len(expenses) < MaxRows
    /\ IF input.user_id \notin users
       THEN /\ response' = Thrown("createBudget", "User not found")
            /\ UNCHANGED <<store, inflight, adding>>
       ELSE IF /\ input.category_id \notin {NULL, UNDEFINED}
               /\ input.category_id \notin DOMAIN categories
       THEN /\ response' = Thrown("createBudget", "Category not found")
            /\ UNCHANGED <<store, inflight, adding>>
       ELSE /\ budgets' = Append(budgets, createBudgetRow(input))
            /\ nextBudgetId' = nextBudgetId + 1
            /\ response' = Returned("createBudget",
                                    convertBudget(createBudgetRow(input)))
            /\ UNCHANGED <<users, categories, teams, expenses,
                           nextExpenseId, tz, inflight, others>>

\* the budget of that id in a list of one, the empty list standing for null
getBudgetById(id) ==
    LET results == SelectSeq(budgets, LAMBDA b : b.id = id)
    IN  IF Len(results) = 0 THEN <<>> ELSE <<convertBudget(results[1])>>

\* the row after SET of the fields the input defines
updateValues(row, input) ==
    [row EXCEPT
        !.amount = IF input.amount # UNDEFINED THEN input.amount ELSE @,
        !.alert_threshold = IF input.alert_threshold # UNDEFINED
                            THEN input.alert_threshold ELSE @,
        !.start_date = IF input.start_date # UNDEFINED
                       THEN ToDateStr(input.start_date) ELSE @,
        !.end_date = IF input.end_date # UNDEFINED
                     THEN ToDateStr(input.end_date) ELSE @]

updateBudget(input) ==
    IF getBudgetById(input.id) = <<>>
    THEN /\ response' = Thrown("updateBudget", "Budget not found")
         /\ UNCHANGED <<store, inflight, adding>>
    ELSE /\ budgets' = [i \in 1..Len(budgets) |->
                           IF budgets[i].id = input.id
                           THEN updateValues(budgets[i], input)
                           ELSE budgets[i]]
         /\ response' =
               Returned("updateBudget",
                        convertBudget(
                            updateValues(
                                SelectSeq(budgets,
                                          LAMBDA b : b.id = input.id)[1],
                                input)))
         /\ UNCHANGED <<users, categories, teams, expenses,
                        nextBudgetId, nextExpenseId, tz, inflight,
                        others>>

deleteBudget(id) ==
    IF getBudgetById(id) = <<>>
    THEN /\ response' = Thrown("deleteBudget", "Budget not found")
         /\ UNCHANGED <<store, inflight, adding>>
    ELSE /\ budgets' = SelectSeq(budgets, LAMBDA b : b.id # id)
         /\ response' = Returned("deleteBudget", [success |-> TRUE])
         /\ UNCHANGED <<users, categories, teams, expenses,
                        nextBudgetId, nextExpenseId, tz, inflight,
                        others>>

createExpenseRow(input) ==
    [id |-> nextExpenseId,
     user_id |-> input.user_id,
     team_id |-> IF input.team_id \in {NULL, UNDEFINED}
                 THEN NULL ELSE input.team_id,
     category_id |-> input.category_id,
     amount |-> input.amount,
     status |-> "PENDING",
     expense_date |-> ToDateStr(input.expense_date),
     approved_by |-> NULL]

convertExpense(row) ==
    [row EXCEPT !.expense_date = FromDateStr(row.expense_date)]

createExpense(input) ==
    /\ Len(budgets) + Len(expenses) < MaxRows
    /\ IF input.user_id \notin users
       THEN /\ response' = Thrown("createExpense", "User does not exist")
            /\ UNCHANGED <<store, inflight, adding>>
       ELSE IF input.category_id \notin DOMAIN categories
       THEN /\ response' = Thrown("createExpense", "Category does not exist")
            /\ UNCHANGED <<store, inflight, adding>>
       ELSE IF /\ input.team_id \notin {NULL, UNDEFINED}
               /\ input.team_id \notin teams
       THEN /\ response' = Thrown("createExpense", "Team does not exist")
            /\ UNCHANGED <<store, inflight, adding>>
       ELSE /\ expenses' = Append(expenses, createExpenseRow(input))
            /\ nextExpenseId' = nextExpenseId + 1
            /\ response' = Returned("createExpense",
                                    convertExpense(createExpenseRow(input)))
            /\ UNCHANGED <<users, categories, teams, budgets, nextBudgetId, tz,
                           inflight, others>>

\* db.insert(expensesTable).values({..., status, expense_date}): a row written
\* to the table directly, as the approval workflow and the fixtures do
insertedExpenseRow(id, values) ==
    [id |-> id,
     user_id |-> values.user_id,
     team_id |-> NULL,
     category_id |-> values.category_id,
     amount |-> values.amount,
     status |-> values.status,
     expense_date |-> values.expense_date,
     approved_by |-> NULL]

insertExpense(values) ==
    /\ Len(budgets) + Len(expenses) < MaxRows
    /\ values.user_id \in users
    /\ values.category_id \in DOMAIN categories
    /\ expenses' = Append(expenses, insertedExpenseRow(nextExpenseId, values))
    /\ nextExpenseId' = nextExpenseId + 1
    /\ response' = [op |-> "insertExpense", error |-> ""]
    /\ UNCHANGED <<users, categories, teams, budgets, nextBudgetId, tz,
                           inflight, others>>

\* the three handlers below are placeholders in the source: each resolves
\* to a value built from its input and runs no statement on the store
updateExpense(input) ==
    /\ response' =
          Returned("updateExpense",
                   [id |-> input.id, user_id |-> 1, team_id |-> NULL,
                    category_id |-> IF input.category_id \in {NULL, UNDEFINED}
                                    THEN 1 ELSE input.category_id,
                    amount |-> IF input.amount \in {0, UNDEFINED}
                               THEN 100 ELSE input.amount,
                    status |-> "PENDING", approved_by |-> NULL])
    /\ UNCHANGED <<store, inflight, adding>>

deleteExpense(id) ==
    /\ response' = Returned("deleteExpense", [success |-> TRUE])
    /\ UNCHANGED <<store, inflight, adding>>

approveExpenseWriting(input) ==
    /\ expenses' = [i \in 1..Len(expenses) |->
                       IF expenses[i].id = input.expense_id
                       THEN [expenses[i] EXCEPT
                                !.status = input.status,
                                !.approved_by = input.approved_by]
                       ELSE expenses[i]]
    /\ response' =
          Returned("approveExpense",
                   [id |-> input.expense_id, user_id |-> 1, team_id |-> NULL,
                    category_id |-> 1, amount |-> 100,
                    status |-> input.status,
                    approved_by |-> input.approved_by])
    /\ UNCHANGED <<users, categories, teams, budgets, nextBudgetId,
                   nextExpenseId, tz, inflight, others>>

approveExpense(input) ==
    /\ response' =
          Returned("approveExpense",
                   [id |-> input.expense_id, user_id |-> 1, team_id |-> NULL,
                    category_id |-> 1, amount |-> 100,
                    status |-> input.status,
                    approved_by |-> input.approved_by])
    /\ UNCHANGED <<store, inflight, adding>>

----------------------------------------------------------------------------
(* Categories and teams.  The tables declare their references           *)
(* (references(() => ...Table.id)), so the store itself refuses an       *)
(* insert whose reference names no row and a delete of a row that is     *)
(* still referenced, unless the reference is declared onDelete cascade.  *)

\* the error of the store when a statement breaks a declared reference
ForeignKeyViolation == "violates foreign key constraint"

\* rows of the sequence table that satisfy Test
Rows(table, column, value) ==
    {i \in 1..Len(table) : table[i][column] = value}

\* user_id: input.user_id || null
createCategoryRow(input) ==
    [id |-> serial.categories,
     name |-> input.name,
     user_id |-> IF input.user_id \in {NULL, UNDEFINED}
                 THEN NULL ELSE input.user_id]

createCategoryUnchecked(input) ==
    /\ categories' = categories @@ (serial.categories :> input.name)
    /\ serial' = [serial EXCEPT !.categories = @ + 1]
    /\ response' = Returned("createCategory", createCategoryRow(input))
    /\ UNCHANGED <<users, teams, budgets, expenses, nextBudgetId,
                   nextExpenseId, tz, inflight, accounts, team_members,
                   notifications, adding>>

createCategory(input) ==
    IF /\ createCategoryRow(input).user_id # NULL
       /\ createCategoryRow(input).user_id \notin users
    THEN /\ response' = Thrown("createCategory", ForeignKeyViolation)
         /\ UNCHANGED <<store, inflight, adding>>
    ELSE /\ categories' = categories @@ (serial.categories :> input.name)
         /\ serial' = [serial EXCEPT !.categories = @ + 1]
         /\ response' = Returned("createCategory", createCategoryRow(input))
         /\ UNCHANGED <<users, teams, budgets, expenses, nextBudgetId,
                        nextExpenseId, tz, inflight, accounts, team_members,
                        notifications, adding>>

deleteCategory(id) ==
    IF Rows(expenses, "category_id", id) # {}
    THEN /\ response' = Thrown("deleteCategory",
                               "Cannot delete category with existing expenses")
         /\ UNCHANGED <<store, inflight, adding>>
    ELSE IF /\ id \in DOMAIN categories
            /\ Rows(budgets, "category_id", id) # {}
    THEN /\ response' = Thrown("deleteCategory", ForeignKeyViolation)
         /\ UNCHANGED <<store, inflight, adding>>
    ELSE /\ categories' = [c \in DOMAIN categories \ {id} |-> categories[c]]
         /\ response' = Returned("deleteCategory",
                                 [success |-> id \in DOMAIN categories])
         /\ UNCHANGED <<users, teams, budgets, expenses, nextBudgetId,
                        nextExpenseId, tz, inflight, others>>

createTeam(input) ==
    IF input.manager_id \notin users
    THEN /\ response' = Thrown("createTeam", "Manager not found")
         /\ UNCHANGED <<store, inflight, adding>>
    ELSE /\ teams' = teams \cup {serial.teams}
         /\ serial' = [serial EXCEPT !.teams = @ + 1]
         /\ response' = Returned("createTeam",
                                 [id |-> serial.teams,
                                  manager_id |-> input.manager_id])
         /\ UNCHANGED <<users, categories, budgets, expenses, nextBudgetId,
                        nextExpenseId, tz, inflight, accounts, team_members,
                        notifications, adding>>

\* db.delete(teamsTable): team_members rows go with their team (onDelete
\* cascade), an expense that names the team makes the store refuse
\* (deleteTeamOfExpenses: a store that lets the team go all the same)
deleteTeamOfExpenses(id) ==
    IF id \notin teams
    THEN /\ response' = Thrown("deleteTeam", "Team not found")
         /\ UNCHANGED <<store, inflight, adding>>
    ELSE /\ teams' = teams \ {id}
         /\ team_members' = SelectSeq(team_members, LAMBDA m : m.team_id # id)
         /\ response' = Returned("deleteTeam", [success |-> TRUE])
         /\ UNCHANGED <<users, categories, budgets, expenses, nextBudgetId,
                        nextExpenseId, tz, inflight, accounts, notifications,
                        serial, adding>>

deleteTeam(id) ==
    IF id \notin teams
    THEN /\ response' = Thrown("deleteTeam", "Team not found")
         /\ UNCHANGED <<store, inflight, adding>>
    ELSE IF Rows(expenses, "team_id", id) # {}
    THEN /\ response' = Thrown("deleteTeam", ForeignKeyViolation)
         /\ UNCHANGED <<store, inflight, adding>>
    ELSE /\ teams' = teams \ {id}
         /\ team_members' = SelectSeq(team_members, LAMBDA m : m.team_id # id)
         /\ response' = Returned("deleteTeam", [success |-> TRUE])
         /\ UNCHANGED <<users, categories, budgets, expenses, nextBudgetId,
                        nextExpenseId, tz, inflight, accounts, notifications,
                        serial, adding>>

existingMembership(teamId, userId) ==
    SelectSeq(team_members,
              LAMBDA m : m.team_id = teamId /\ m.user_id = userId)

teamMemberRow(teamId, userId) ==
    [id |-> serial.team_members, team_id |-> teamId, user_id |-> userId]

addTeamMemberUnchecked(teamId, userId) ==
    IF teamId \notin teams
    THEN /\ response' = Thrown("addTeamMember", "Team not found")
         /\ UNCHANGED <<store, inflight, adding>>
    ELSE IF userId \notin users
    THEN /\ response' = Thrown("addTeamMember", "User not found")
         /\ UNCHANGED <<store, inflight, adding>>
    ELSE /\ team_members' = Append(team_members,
                                   teamMemberRow(teamId, userId))
         /\ serial' = [serial EXCEPT !.team_members = @ + 1]
         /\ response' = Returned("addTeamMember",
                                 teamMemberRow(teamId, userId))
         /\ UNCHANGED <<users, categories, teams, budgets, expenses,
                        nextBudgetId, nextExpenseId, tz, inflight, accounts,
                        notifications, adding>>

\* a call that runs from its first query to its insert with no other call
\* in between
addTeamMember(teamId, userId) ==
    IF teamId \notin teams
    THEN /\ response' = Thrown("addTeamMember", "Team not found")
         /\ UNCHANGED <<store, inflight, adding>>
    ELSE IF userId \notin users
    THEN /\ response' = Thrown("addTeamMember", "User not found")
         /\ UNCHANGED <<store, inflight, adding>>
    ELSE IF Len(existingMembership(teamId, userId)) > 0
    THEN /\ response' = Thrown("addTeamMember",
                               "User is already a team member")
         /\ UNCHANGED <<store, inflight, adding>>
    ELSE /\ team_members' = Append(team_members,
                                   teamMemberRow(teamId, userId))
         /\ serial' = [serial EXCEPT !.team_members = @ + 1]
         /\ response' = Returned("addTeamMember",
                                 teamMemberRow(teamId, userId))
         /\ UNCHANGED <<users, categories, teams, budgets, expenses,
                        nextBudgetId, nextExpenseId, tz, inflight, accounts,
                        notifications, adding>>

removeTeamMember(teamId, userId) ==
    IF Len(existingMembership(teamId, userId)) = 0
    THEN /\ response' = Thrown("removeTeamMember",
                               "Team membership not found")
         /\ UNCHANGED <<store, inflight, adding>>
    ELSE /\ team_members' =
               SelectSeq(team_members,
                         LAMBDA m : ~(m.team_id = teamId /\ m.user_id = userId))
         /\ response' = Returned("removeTeamMember", [success |-> TRUE])
         /\ UNCHANGED <<users, categories, teams, budgets, expenses,
                        nextBudgetId, nextExpenseId, tz, inflight, accounts,
                        notifications, serial, adding>>

----------------------------------------------------------------------------
(* addTeamMember query by query: the handler awaits three selects and    *)
(* then the insert, outside any transaction, so other calls run between  *)
(* them; adding[c] holds the arguments of call c and the statement it    *)
(* runs next                                                             *)

\* call c is over
Finished(c) == [k \in DOMAIN adding \ {c} |-> adding[k]]

At(c, pc) == c \in DOMAIN adding /\ adding[c].pc = pc

QueryTeam(c, teamId, userId) ==
    /\ c \notin DOMAIN adding
    /\ IF teamId \notin teams
       THEN /\ response' = Thrown("addTeamMember", "Team not found")
            /\ UNCHANGED <<store, inflight, adding>>
       ELSE /\ adding' = adding @@ (c :> [pc |-> "user", teamId |-> teamId,
                                          userId |-> userId])
            /\ UNCHANGED <<store, inflight, response>>

QueryUser(c) ==
    /\ At(c, "user")
    /\ IF adding[c].userId \notin users
       THEN /\ response' = Thrown("addTeamMember", "User not found")
            /\ adding' = Finished(c)
       ELSE /\ adding' = [adding EXCEPT ![c].pc = "existingMembership"]
            /\ UNCHANGED response
    /\ UNCHANGED <<store, inflight>>

QueryExistingMembership(c) ==
    /\ At(c, "existingMembership")
    /\ IF Len(existingMembership(adding[c].teamId, adding[c].userId)) > 0
       THEN /\ response' = Thrown("addTeamMember",
                                  "User is already a team member")
            /\ adding' = Finished(c)
       ELSE /\ adding' = [adding EXCEPT ![c].pc = "result"]
            /\ UNCHANGED response
    /\ UNCHANGED <<store, inflight>>

\* the insert: the store checks the declared references, and nothing else
InsertTeamMember(c) ==
    /\ At(c, "result")
    /\ adding' = Finished(c)
    /\ IF adding[c].teamId \notin teams
       THEN /\ response' = Thrown("addTeamMember", ForeignKeyViolation)
            /\ UNCHANGED <<store, inflight>>
       ELSE /\ team_members' =
                  Append(team_members,
                         teamMemberRow(adding[c].teamId, adding[c].userId))
            /\ serial' = [serial EXCEPT !.team_members = @ + 1]
            /\ response' =
                  Returned("addTeamMember",
                           teamMemberRow(adding[c].teamId, adding[c].userId))
            /\ UNCHANGED <<users, categories, teams, budgets, expenses,
                           nextBudgetId, nextExpenseId, tz, inflight,
                           accounts, notifications>>

----------------------------------------------------------------------------
(* Notifications *)

notificationRow(userId, type, relatedExpenseId) ==
    [id |-> serial.notifications,
     user_id |-> userId,
     type |-> type,
     is_read |-> FALSE,
     related_expense_id |-> relatedExpenseId]

insertNotification(row) ==
    /\ notifications' = Append(notifications, row)
    /\ serial' = [serial EXCEPT !.notifications = @ + 1]
    /\ UNCHANGED <<users, categories, teams, budgets, expenses, nextBudgetId,
                   nextExpenseId, tz, inflight, accounts, team_members,
                   adding>>

createNotification(input) ==
    LET row == notificationRow(input.user_id, input.type,
                               IF input.related_expense_id
                                     \in {NULL, UNDEFINED}
                               THEN NULL ELSE input.related_expense_id)
    IN  IF input.user_id \notin users
        THEN /\ response' = Thrown("createNotification", "User not found")
             /\ UNCHANGED <<store, inflight, adding>>
        ELSE IF /\ input.related_expense_id \notin {NULL, UNDEFINED}
                /\ Rows(expenses, "id", input.related_expense_id) = {}
        THEN /\ response' = Thrown("createNotification", "Expense not found")
             /\ UNCHANGED <<store, inflight, adding>>
        ELSE /\ insertNotification(row)
             /\ response' = Returned("createNotification", row)

\* set({ is_read: true }) on the rows at these positions
setRead(rows) ==
    /\ notifications' = [i \in 1..Len(notifications) |->
                            IF i \in rows
                            THEN [notifications[i] EXCEPT !.is_read = TRUE]
                            ELSE notifications[i]]
    /\ UNCHANGED <<users, categories, teams, budgets, expenses, nextBudgetId,
                   nextExpenseId, tz, inflight, accounts, team_members,
                   serial, adding>>

markNotificationAsRead(notificationId) ==
    IF Rows(notifications, "id", notificationId) = {}
    THEN /\ response' = Thrown("markNotificationAsRead",
                               "Notification not found")
         /\ UNCHANGED <<store, inflight, adding>>
    ELSE /\ setRead(Rows(notifications, "id", notificationId))
         /\ response' = Returned("markNotificationAsRead",
                                 [success |-> TRUE])

markAllNotificationsAsReadOfEveryUser(userId) ==
    IF userId \notin users
    THEN /\ response' = Thrown("markAllNotificationsAsRead", "User not found")
         /\ UNCHANGED <<store, inflight, adding>>
    ELSE /\ setRead(Rows(notifications, "is_read", FALSE))
         /\ response' = Returned("markAllNotificationsAsRead",
                                 [success |-> TRUE])

markAllNotificationsAsRead(userId) ==
    IF userId \notin users
    THEN /\ response' = Thrown("markAllNotificationsAsRead", "User not found")
         /\ UNCHANGED <<store, inflight, adding>>
    ELSE /\ setRead(Rows(notifications, "user_id", userId)
                    \cap Rows(notifications, "is_read", FALSE))
         /\ response' = Returned("markAllNotificationsAsRead",
                                 [success |-> TRUE])

deleteNotification(notificationId) ==
    IF Rows(notifications, "id", notificationId) = {}
    THEN /\ response' = Thrown("deleteNotification", "Notification not found")
         /\ UNCHANGED <<store, inflight, adding>>
    ELSE /\ notifications' = SelectSeq(notifications,
                                       LAMBDA n : n.id # notificationId)
         /\ response' = Returned("deleteNotification", [success |-> TRUE])
         /\ UNCHANGED <<users, categories, teams, budgets, expenses,
                        nextBudgetId, nextExpenseId, tz, inflight, accounts,
                        team_members, serial, adding>>

\* select count() where user_id = userId and is_read = false
unreadCount(userId) ==
    Len(SelectSeq(notifications,
                  LAMBDA n : n.user_id = userId /\ n.is_read = FALSE))

getUnreadNotificationCount(userId) ==
    /\ response' =
          IF userId \notin users
          THEN Thrown("getUnreadNotificationCount", "User not found")
          ELSE Returned("getUnreadNotificationCount",
                        [count |-> unreadCount(userId)])
               @@ [userId |-> userId]
    /\ UNCHANGED <<store, inflight, adding>>

sendBudgetAlert(userId, budgetId) ==
    IF userId \notin users
    THEN /\ response' = Thrown("sendBudgetAlert", "User not found")
         /\ UNCHANGED <<store, inflight, adding>>
    ELSE IF getBudgetById(budgetId) = <<>>
    THEN /\ response' = Thrown("sendBudgetAlert", "Budget not found")
         /\ UNCHANGED <<store, inflight, adding>>
    ELSE /\ insertNotification(notificationRow(userId, "BUDGET_ALERT", NULL))
         /\ response' = [op |-> "sendBudgetAlert", error |-> ""]

sendExpenseApprovalNotification(expenseId, managerId) ==
    IF managerId \notin users
    THEN /\ response' = Thrown("sendExpenseApprovalNotification",
                               "Manager not found")
         /\ UNCHANGED <<store, inflight, adding>>
    ELSE IF Rows(expenses, "id", expenseId) = {}
    THEN /\ response' = Thrown("sendExpenseApprovalNotification",
                               "Expense not found")
         /\ UNCHANGED <<store, inflight, adding>>
    ELSE /\ insertNotification(notificationRow(managerId, "EXPENSE_APPROVAL",
                                               expenseId))
         /\ response' = [op |-> "sendExpenseApprovalNotification",
                         error |-> ""]

sendExpenseReminderNotification(userId) ==
    IF userId \notin users
    THEN /\ response' = Thrown("sendExpenseReminderNotification",
                               "User not found")
         /\ UNCHANGED <<store, inflight, adding>>
    ELSE /\ insertNotification(notificationRow(userId, "EXPENSE_REMINDER",
                                               NULL))
         /\ response' = [op |-> "sendExpenseReminderNotification",
                         error |-> ""]

----------------------------------------------------------------------------
(* Accounts *)

\* the ids of the users rows with that email
usersByEmail(email) == {u \in users : accounts[u].email = email}

registerUser(input, salt) ==
    IF usersByEmail(input.email) # {}
    THEN /\ response' = Thrown("registerUser",
                               "User with this email already exists")
         /\ UNCHANGED <<store, inflight, adding>>
    ELSE /\ users' = users \cup {serial.users}
         /\ accounts' = accounts @@
               (serial.users :> [email |-> input.email,
                                 password_hash |->
                                     hashPassword(input.password, salt),
                                 is_active |-> TRUE])
         /\ serial' = [serial EXCEPT !.users = @ + 1]
         /\ response' = Returned("registerUser",
                                 [id |-> serial.users, email |-> input.email,
                                  is_active |-> TRUE])
         /\ UNCHANGED <<categories, teams, budgets, expenses, nextBudgetId,
                        nextExpenseId, tz, inflight, team_members,
                        notifications, adding>>

loginUserPasswordFirst(input) ==
    /\ response' =
          IF usersByEmail(input.email) = {}
          THEN Thrown("loginUser", "Invalid email or password")
          ELSE LET user == CHOOSE u \in usersByEmail(input.email) : TRUE
               IN  IF ~verifyPassword(input.password,
                                      accounts[user].password_hash)
                   THEN Thrown("loginUser", "Invalid email or password")
                   ELSE IF ~accounts[user].is_active
                   THEN Thrown("loginUser", "Account is deactivated")
                   ELSE Returned("loginUser",
                                 [userId |-> user,
                                  email |-> accounts[user].email])
    /\ UNCHANGED <<store, inflight, adding>>

\* users[0] of the select by email: the column is unique
loginUser(input) ==
    /\ response' =
          IF usersByEmail(input.email) = {}
          THEN Thrown("loginUser", "Invalid email or password")
          ELSE LET user == CHOOSE u \in usersByEmail(input.email) : TRUE
               IN  IF ~accounts[user].is_active
                   THEN Thrown("loginUser", "Account is deactivated")
                   ELSE IF ~verifyPassword(input.password,
                                           accounts[user].password_hash)
                   THEN Thrown("loginUser", "Invalid email or password")
                   ELSE Returned("loginUser",
                                 [userId |-> user,
                                  email |-> accounts[user].email])
    /\ UNCHANGED <<store, inflight, adding>>

\* the error of the store when an update breaks the unique email column
UniqueViolation == "violates unique constraint"

\* a field the input leaves undefined is no field of the record
updateData(row, input) ==
    [row EXCEPT
        !.email = IF "email" \in DOMAIN input THEN input.email ELSE @,
        !.is_active = IF "is_active" \in DOMAIN input
                      THEN input.is_active ELSE @]

updateUser(input) ==
    IF input.id \notin users
    THEN /\ response' = Thrown("updateUser", "User not found")
         /\ UNCHANGED <<store, inflight, adding>>
    ELSE IF /\ "email" \in DOMAIN input
            /\ usersByEmail(input.email) \ {input.id} # {}
    THEN /\ response' = Thrown("updateUser", UniqueViolation)
         /\ UNCHANGED <<store, inflight, adding>>
    ELSE /\ accounts' = [accounts EXCEPT
                            ![input.id] = updateData(@, input)]
         /\ response' =
               Returned("updateUser",
                        [id |-> input.id,
                         email |-> updateData(accounts[input.id], input).email,
                         is_active |->
                             updateData(accounts[input.id], input).is_active])
         /\ UNCHANGED <<users, categories, teams, budgets, expenses,
                        nextBudgetId, nextExpenseId, tz, inflight,
                        team_members, notifications, serial, adding>>

\* a soft delete: the row stays, is_active becomes false
deleteUser(id) ==
    IF id \notin users
    THEN /\ response' = Returned("deleteUser", [success |-> FALSE])
         /\ UNCHANGED <<store, inflight, adding>>
    ELSE /\ accounts' = [accounts EXCEPT ![id].is_active = FALSE]
         /\ response' = Returned("deleteUser", [success |-> TRUE])
         /\ UNCHANGED <<users, categories, teams, budgets, expenses,
                        nextBudgetId, nextExpenseId, tz, inflight,
                        team_members, notifications, serial, adding>>

changePassword(userId, newPassword, salt) ==
    IF userId \notin users
    THEN /\ response' = Thrown("changePassword", "User not found")
         /\ UNCHANGED <<store, inflight, adding>>
    ELSE /\ accounts' = [accounts EXCEPT
                            ![userId].password_hash =
                                hashPassword(newPassword, salt)]
         /\ response' = Returned("changePassword", [success |-> TRUE])
         /\ UNCHANGED <<users, categories, teams, budgets, expenses,
                        nextBudgetId, nextExpenseId, tz, inflight,
                        team_members, notifications, serial, adding>>

----------------------------------------------------------------------------
(* Budget Aggregator *)

getBudgets(d, userId) ==
    MapSeq(convertBudget,
           SelectSeq(d.budgets, LAMBDA b : b.user_id = userId))

IsApprovedOf(e, userId) == e.user_id = userId /\ e.status = "APPROVED"

getBudgetOverviewAnyStatus(d, userId) ==
    LET bs == getBudgets(d, userId)
        total_budget == SumAmount(bs)
        spentResults == sum(SelectSeq(d.expenses,
                                      LAMBDA e : e.user_id = userId))
        total_spent == IF spentResults = SqlNull THEN 0 ELSE spentResults
    IN  [budgets |-> bs,
         total_budget |-> total_budget,
         total_spent |-> total_spent,
         remaining |-> total_budget - total_spent,
         percentage_used |-> IF total_budget > 0
                             THEN Percent(total_spent, total_budget)
                             ELSE Zero]

getBudgetOverviewClamped(d, userId) ==
    LET bs == getBudgets(d, userId)
        total_budget == SumAmount(bs)
        spentResults == sum(SelectSeq(d.expenses,
                                      LAMBDA e : IsApprovedOf(e, userId)))
        total_spent == IF spentResults = SqlNull THEN 0 ELSE spentResults
    IN  [budgets |-> bs,
         total_budget |-> total_budget,
         total_spent |-> total_spent,
         remaining |-> IF total_spent > total_budget
                       THEN 0 ELSE total_budget - total_spent,
         percentage_used |-> IF total_budget > 0
                             THEN Percent(total_spent, total_budget)
                             ELSE Zero]

getBudgetOverviewCapped(d, userId) ==
    LET bs == getBudgets(d, userId)
        total_budget == SumAmount(bs)
        spentResults == sum(SelectSeq(d.expenses,
                                      LAMBDA e : IsApprovedOf(e, userId)))
        total_spent == IF spentResults = SqlNull THEN 0 ELSE spentResults
    IN  [budgets |-> bs,
         total_budget |-> total_budget,
         total_spent |-> total_spent,
         remaining |-> total_budget - total_spent,
         percentage_used |-> IF total_budget > 0
                             THEN IF total_spent > total_budget
                                  THEN Percent(1, 1)
                                  ELSE Percent(total_spent, total_budget)
                             ELSE Zero]

getBudgetOverview(d, userId) ==
    LET bs == getBudgets(d, userId)
        total_budget == SumAmount(bs)
        spentResults == sum(SelectSeq(d.expenses,
                                      LAMBDA e : IsApprovedOf(e, userId)))
        total_spent == IF spentResults = SqlNull THEN 0 ELSE spentResults
    IN  [budgets |-> bs,
         total_budget |-> total_budget,
         total_spent |-> total_spent,
         remaining |-> total_budget - total_spent,
         percentage_used |-> IF total_budget > 0
                             THEN Percent(total_spent, total_budget)
                             ELSE Zero]

GetBudgetOverviewCheckingUser(userId) ==
    /\ response' = IF userId \in users
                   THEN [op |-> "getBudgetOverview", error |-> "",
                         userId |-> userId,
                         result |-> getBudgetOverview(db, userId)]
                   ELSE [op |-> "getBudgetOverview", error |-> "User not found",
                         userId |-> userId]
    /\ UNCHANGED <<store, inflight, adding>>

GetBudgetOverview(userId) ==
    /\ response' = [op |-> "getBudgetOverview", error |-> "",
                    userId |-> userId,
                    result |-> getBudgetOverview(db, userId)]
    /\ UNCHANGED <<store, inflight, adding>>

----------------------------------------------------------------------------
(* Budget Alert Checker *)

\* usage >= threshold, usage a quotient and threshold a number
AtLeast(p, threshold) == p.num >= threshold * p.den

MoreThan(p, threshold) == p.num > threshold * p.den

LessThan(p, threshold) == p.num < threshold * p.den

spentInBudgetExclusiveEnd(d, userId, budget) ==
    LET startDateStr == ToDateStr(budget.start_date)
        endDateStr == ToDateStr(budget.end_date)
        spentResults ==
            sum(SelectSeq(d.expenses, LAMBDA e :
                    /\ e.user_id = userId
                    /\ e.status = "APPROVED"
                    /\ e.expense_date >= startDateStr
                    /\ e.expense_date < endDateStr
                    /\ (budget.category_id # NULL
                           => e.category_id = budget.category_id)))
    IN  IF spentResults = SqlNull THEN 0 ELSE spentResults

spentInBudgetAnyUser(d, userId, budget) ==
    LET startDateStr == ToDateStr(budget.start_date)
        endDateStr == ToDateStr(budget.end_date)
        spentResults ==
            sum(SelectSeq(d.expenses, LAMBDA e :
                    /\ e.status = "APPROVED"
                    /\ e.expense_date >= startDateStr
                    /\ e.expense_date <= endDateStr
                    /\ (budget.category_id # NULL
                           => e.category_id = budget.category_id)))
    IN  IF spentResults = SqlNull THEN 0 ELSE spentResults

\* the APPROVED spend of the user inside the budget's window and category
spentInBudget(d, userId, budget) ==
    LET startDateStr == ToDateStr(budget.start_date)
        endDateStr == ToDateStr(budget.end_date)
        spentResults ==
            sum(SelectSeq(d.expenses, LAMBDA e :
                    /\ e.user_id = userId
                    /\ e.status = "APPROVED"
                    /\ e.expense_date >= startDateStr
                    /\ e.expense_date <= endDateStr
                    /\ (budget.category_id # NULL
                           => e.category_id = budget.category_id)))
    IN  IF spentResults = SqlNull THEN 0 ELSE spentResults

usagePercentage(total_spent, budget) ==
    IF budget.amount > 0 THEN Percent(total_spent, budget.amount) ELSE Zero

alertOf(d, userId, budget) ==
    LET total_spent == spentInBudget(d, userId, budget)
    IN  [budget_id |-> budget.id,
         category_id |-> budget.category_id,
         budget_amount |-> budget.amount,
         amount_spent |-> total_spent,
         usage_percentage |-> usagePercentage(total_spent, budget),
         alert_threshold |-> budget.alert_threshold,
         period |-> budget.period,
         start_date |-> budget.start_date,
         end_date |-> budget.end_date]

checkBudgetAlertsStrict(d, userId) ==
    SelectSeq([i \in 1..Len(getBudgets(d, userId)) |->
                  alertOf(d, userId, getBudgets(d, userId)[i])],
              LAMBDA a : MoreThan(a.usage_percentage, a.alert_threshold))

checkBudgetAlerts(d, userId) ==
    SelectSeq([i \in 1..Len(getBudgets(d, userId)) |->
                  alertOf(d, userId, getBudgets(d, userId)[i])],
              LAMBDA a : AtLeast(a.usage_percentage, a.alert_threshold))

CheckBudgetAlertsConsuming(userId) ==
    LET alerts == checkBudgetAlerts(db, userId)
        alerted == {alerts[k].budget_id : k \in 1..Len(alerts)}
    IN  /\ response' = [op |-> "checkBudgetAlerts", error |-> "",
                        userId |-> userId, result |-> alerts]
        /\ budgets' = [i \in 1..Len(budgets) |->
                          IF budgets[i].id \in alerted
                          THEN [budgets[i] EXCEPT !.alert_threshold = 100]
                          ELSE budgets[i]]
        /\ UNCHANGED <<users, categories, teams, expenses,
                       nextBudgetId, nextExpenseId, tz, inflight,
                        others>>

CheckBudgetAlerts(userId) ==
    /\ response' = [op |-> "checkBudgetAlerts", error |-> "",
                    userId |-> userId,
                    result |-> checkBudgetAlerts(db, userId)]
    /\ UNCHANGED <<store, inflight, adding>>

----------------------------------------------------------------------------
(* Budget Analytics Engine *)

ReduceSpending == "Consider reducing spending or increasing budget allocation"

RoomToSpend == "You have room to increase spending within your budget"

\* the user's budgets of the period whose dates overlap the requested range
analyticsBudgets(d, input) ==
    LET startDateStr == ToDateStr(input.start_date)
        endDateStr == ToDateStr(input.end_date)
    IN  MapSeq(convertBudget,
               SelectSeq(d.budgets, LAMBDA b :
                   /\ b.user_id = input.user_id
                   /\ b.period = input.period
                   /\ b.end_date >= startDateStr
                   /\ b.start_date <= endDateStr))

analyticsRowsAfterStart(d, input) ==
    LET startDateStr == ToDateStr(input.start_date)
        endDateStr == ToDateStr(input.end_date)
    IN  SelectSeq(d.expenses, LAMBDA e :
            /\ e.user_id = input.user_id
            /\ e.status = "APPROVED"
            /\ e.expense_date > startDateStr
            /\ e.expense_date <= endDateStr)

\* the user's APPROVED expenses dated in the requested range
analyticsRows(d, input) ==
    LET startDateStr == ToDateStr(input.start_date)
        endDateStr == ToDateStr(input.end_date)
    IN  SelectSeq(d.expenses, LAMBDA e :
            /\ e.user_id = input.user_id
            /\ e.status = "APPROVED"
            /\ e.expense_date >= startDateStr
            /\ e.expense_date <= endDateStr)

groupByCategoryFirstRow(rows) ==
    {[category_id |-> c,
      total_amount |-> SelectSeq(rows, LAMBDA e : e.category_id = c)[1].amount] :
        c \in {rows[i].category_id : i \in 1..Len(rows)}}

\* GROUP BY category_id with sum(amount): one row for each category present
groupByCategory(rows) ==
    {[category_id |-> c,
      total_amount |-> sum(SelectSeq(rows, LAMBDA e : e.category_id = c))] :
        c \in {rows[i].category_id : i \in 1..Len(rows)}}

recommendationsForInclusive(budget_utilization) ==
    (IF AtLeast(budget_utilization, 90) THEN <<ReduceSpending>> ELSE <<>>)
    \o (IF ~MoreThan(budget_utilization, 50) THEN <<RoomToSpend>> ELSE <<>>)

recommendationsForFlipped(budget_utilization) ==
    (IF MoreThan(budget_utilization, 90) THEN <<ReduceSpending>> ELSE <<>>)
    \o (IF MoreThan(budget_utilization, 50) THEN <<RoomToSpend>> ELSE <<>>)

recommendationsFor(budget_utilization) ==
    (IF MoreThan(budget_utilization, 90) THEN <<ReduceSpending>> ELSE <<>>)
    \o (IF LessThan(budget_utilization, 50) THEN <<RoomToSpend>> ELSE <<>>)

budgetUtilizationOfAllBudgets(d, input, total_spent) ==
    LET total_budgeted == SumAmount(getBudgets(d, input.user_id))
    IN  IF total_budgeted > 0 THEN Percent(total_spent, total_budgeted)
        ELSE Zero

budgetUtilization(d, input, total_spent) ==
    LET total_budgeted == SumAmount(analyticsBudgets(d, input))
    IN  IF total_budgeted > 0 THEN Percent(total_spent, total_budgeted)
        ELSE Zero

spendingTrendOfEndDate(input, offset, total_spent) ==
    <<[period |-> ToLocalMonth(input.end_date, offset),
       amount |-> total_spent]>>

\* one bucket for the whole range, keyed by the start date's month as the
\* server's clock reads it
spendingTrend(input, offset, total_spent) ==
    <<[period |-> ToLocalMonth(input.start_date, offset),
       amount |-> total_spent]>>

\* the answer computed from the grouped rows in the order the store gave them
analyticsFrom(d, input, offset, groups) ==
    LET total_spent ==
            SumTotalAmount([i \in 1..Len(groups) |->
                [groups[i] EXCEPT !.total_amount =
                    IF @ = SqlNull THEN 0 ELSE @]])
        budget_utilization == budgetUtilization(d, input, total_spent)
    IN  [budget_utilization |-> budget_utilization,
         category_breakdown |->
            [i \in 1..Len(groups) |->
                [category_id |-> groups[i].category_id,
                 amount_spent |-> IF groups[i].total_amount = SqlNull
                                  THEN 0 ELSE groups[i].total_amount,
                 percentage |-> IF total_spent > 0
                                THEN Percent(IF groups[i].total_amount = SqlNull
                                             THEN 0 ELSE groups[i].total_amount,
                                             total_spent)
                                ELSE Zero]],
         spending_trend |-> spendingTrend(input, offset, total_spent),
         recommendations |-> recommendationsFor(budget_utilization)]

\* every answer the call may give, one for each order of the grouped rows
getBudgetAnalytics(d, input, offset) ==
    {analyticsFrom(d, input, offset, groups) :
        groups \in Orders(groupByCategory(analyticsRows(d, input)))}

GetBudgetAnalytics(input) ==
    /\ \E result \in getBudgetAnalytics(db, input, tz) :
          response' = [op |-> "getBudgetAnalytics", error |-> "",
                       input |-> input, result |-> result]
    /\ UNCHANGED <<store, inflight, adding>>

----------------------------------------------------------------------------
(* Dashboard Statistics Aggregator *)

expenseStatsApprovedOnly(d, userId) ==
    LET rows == SelectSeq(d.expenses, LAMBDA e : IsApprovedOf(e, userId))
    IN  [total_expenses |-> Len(rows),
         total_amount_spent |-> coalesceSum(rows)]

\* count(*) and coalesce(sum(amount), 0) over the user's expenses
expenseStats(d, userId) ==
    LET rows == SelectSeq(d.expenses, LAMBDA e : e.user_id = userId)
    IN  [total_expenses |-> Len(rows),
         total_amount_spent |-> coalesceSum(rows)]

budgetUsagePercentageTruncated(d, userId, totalAmountSpent) ==
    LET totalBudget ==
            coalesceSum(SelectSeq(d.budgets, LAMBDA b : b.user_id = userId))
    IN  Trunc2(IF totalBudget > 0 THEN Percent(totalAmountSpent, totalBudget)
               ELSE Zero)

\* the share of the user's summed budgets, to two decimal places
budgetUsagePercentage(d, userId, totalAmountSpent) ==
    LET totalBudget ==
            coalesceSum(SelectSeq(d.budgets, LAMBDA b : b.user_id = userId))
    IN  Round2(IF totalBudget > 0 THEN Percent(totalAmountSpent, totalBudget)
               ELSE Zero)

categoryBreakdownResultAnyUser(d, userId) ==
    LET joined(c) == SelectSeq(d.expenses, LAMBDA e : e.category_id = c)
    IN  {[category_id |-> c,
          category_name |-> d.categories[c],
          amount_spent |-> coalesceSum(joined(c))] :
            c \in {x \in DOMAIN d.categories : coalesceSum(joined(x)) > 0}}

\* categories LEFT JOIN the user's expenses, grouped by category, HAVING a
\* sum above 0
categoryBreakdownResult(d, userId) ==
    LET joined(c) == SelectSeq(d.expenses, LAMBDA e :
                        e.category_id = c /\ e.user_id = userId)
    IN  {[category_id |-> c,
          category_name |-> d.categories[c],
          amount_spent |-> coalesceSum(joined(c))] :
            c \in {x \in DOMAIN d.categories : coalesceSum(joined(x)) > 0}}

\* the user's expenses grouped by month, in ascending month order
RECURSIVE monthlyTrendFrom(_, _)
monthlyTrendFrom(rows, months) ==
    IF months = {} THEN <<>>
    ELSE LET m == CHOOSE x \in months : \A y \in months : x <= y
         IN  <<[month |-> m,
                amount |-> coalesceSum(SelectSeq(rows, LAMBDA e :
                              ToMonth(e.expense_date) = m))]>>
             \o monthlyTrendFrom(rows, months \ {m})

monthlyTrendByDay(d, userId) ==
    LET rows == SelectSeq(d.expenses, LAMBDA e : e.user_id = userId)
        days == {rows[i].expense_date : i \in 1..Len(rows)}
        dayRows(day) == SelectSeq(rows, LAMBDA e : e.expense_date = day)
        RECURSIVE from(_)
        from(S) ==
            IF S = {} THEN <<>>
            ELSE LET day == CHOOSE x \in S : \A y \in S : x <= y
                 IN  <<[month |-> ToMonth(day),
                        amount |-> coalesceSum(dayRows(day))]>>
                     \o from(S \ {day})
    IN  from(days)

monthlyTrend(d, userId) ==
    LET rows == SelectSeq(d.expenses, LAMBDA e : e.user_id = userId)
    IN  monthlyTrendFrom(rows,
            {ToMonth(rows[i].expense_date) : i \in 1..Len(rows)})

recentExpensesOldestFirst(d, userId) ==
    LET rows == SelectSeq(d.expenses, LAMBDA e : e.user_id = userId)
        n == IF Len(rows) < RecentLimit THEN Len(rows) ELSE RecentLimit
    IN  [i \in 1..n |-> convertExpense(rows[i])]

\* ORDER BY created_at DESC LIMIT 5; rows are created in the order of their ids
recentExpenses(d, userId) ==
    LET rows == SelectSeq(d.expenses, LAMBDA e : e.user_id = userId)
        n == IF Len(rows) < RecentLimit THEN Len(rows) ELSE RecentLimit
    IN  [i \in 1..n |-> convertExpense(rows[Len(rows) + 1 - i])]

\* the category rows with their share of the total
categoryBreakdown(rows, totalAmountSpent) ==
    [i \in 1..Len(rows) |->
        [category_name |-> rows[i].category_name,
         amount_spent |-> rows[i].amount_spent,
         percentage |-> IF totalAmountSpent > 0
                        THEN Percent(rows[i].amount_spent, totalAmountSpent)
                        ELSE Zero]]

dashboardFrom(d, userId, breakdown) ==
    LET stats == expenseStats(d, userId)
        totalAmountSpent == stats.total_amount_spent
    IN  [total_expenses |-> stats.total_expenses,
         total_amount_spent |-> totalAmountSpent,
         budget_usage_percentage |->
            budgetUsagePercentage(d, userId, totalAmountSpent),
         category_breakdown |-> categoryBreakdown(breakdown, totalAmountSpent),
         monthly_trend |-> monthlyTrend(d, userId),
         recent_expenses |-> recentExpenses(d, userId)]

\* every answer the call may give, one for each order of the category rows
getDashboardStats(d, userId) ==
    {dashboardFrom(d, userId, breakdown) :
        breakdown \in Orders(categoryBreakdownResult(d, userId))}

GetDashboardStats(userId) ==
    /\ \E result \in getDashboardStats(db, userId) :
          response' = [op |-> "getDashboardStats", error |-> "",
                       userId |-> userId, result |-> result]
    /\ UNCHANGED <<store, inflight, adding>>

----------------------------------------------------------------------------
(* getDashboardStats query by query: the handler awaits five queries one   *)
(* after the other, outside any transaction, so other calls run between    *)
(* them; inflight holds what the call has read so far                      *)

QueryExpenseStats(userId) ==
    /\ inflight = Idle
    /\ inflight' = [pc |-> "budgetResult", userId |-> userId,
                    expenseStats |-> expenseStats(db, userId)]
    /\ UNCHANGED <<store, response, adding>>

QueryBudget ==
    /\ inflight.pc = "budgetResult"
    /\ inflight' =
          [pc |-> "categoryBreakdownResult",
           budgetUsagePercentage |->
              budgetUsagePercentage(db, inflight.userId,
                                    inflight.expenseStats.total_amount_spent)]
          @@ inflight
    /\ UNCHANGED <<store, response, adding>>

QueryCategoryBreakdown ==
    /\ inflight.pc = "categoryBreakdownResult"
    /\ \E rows \in Orders(categoryBreakdownResult(db, inflight.userId)) :
          inflight' =
              [pc |-> "monthlyTrendResult",
               categoryBreakdown |->
                  categoryBreakdown(rows,
                                    inflight.expenseStats.total_amount_spent)]
              @@ inflight
    /\ UNCHANGED <<store, response, adding>>

QueryMonthlyTrend ==
    /\ inflight.pc = "monthlyTrendResult"
    /\ inflight' = [pc |-> "recentExpensesResult",
                    monthlyTrend |-> monthlyTrend(db, inflight.userId)]
                   @@ inflight
    /\ UNCHANGED <<store, response, adding>>

dashboardResult(call, recent) ==
    [total_expenses |-> call.expenseStats.total_expenses,
     total_amount_spent |-> call.expenseStats.total_amount_spent,
     budget_usage_percentage |-> call.budgetUsagePercentage,
     category_breakdown |-> call.categoryBreakdown,
     monthly_trend |-> call.monthlyTrend,
     recent_expenses |-> recent]

QueryRecentExpensesOfSnapshot ==
    LET mine == SelectSeq(expenses, LAMBDA e : e.user_id = inflight.userId)
        counted == SubSeq(mine, 1, inflight.expenseStats.total_expenses)
    IN  /\ inflight.pc = "recentExpensesResult"
        /\ response' =
              [op |-> "getDashboardStats", error |-> "",
               userId |-> inflight.userId,
               result |-> dashboardResult(inflight,
                             recentExpenses([db EXCEPT !.expenses = counted],
                                            inflight.userId))]
        /\ inflight' = Idle
        /\ UNCHANGED <<store, adding>>

\* the last query, after which the call returns
QueryRecentExpenses ==
    /\ inflight.pc = "recentExpensesResult"
    /\ response' =
          [op |-> "getDashboardStats", error |-> "",
           userId |-> inflight.userId,
           result |-> dashboardResult(inflight,
                                      recentExpenses(db, inflight.userId))]
    /\ inflight' = Idle
    /\ UNCHANGED <<store, adding>>

----------------------------------------------------------------------------
(* Inputs *)

Instant(day, tick) == day * TicksPerDay + tick

BudgetInput(u, c, amt, p, s, e, th) ==
    [user_id |-> u, category_id |-> c, amount |-> amt, period |-> p,
     start_date |-> s, end_date |-> e, alert_threshold |-> th]

UpdateBudgetInput(id, amt, th, s, e) ==
    [id |-> id, amount |-> amt, alert_threshold |-> th,
     start_date |-> s, end_date |-> e]

ExpenseInput(u, c, amt, t) ==
    [user_id |-> u, team_id |-> UNDEFINED, category_id |-> c,
     amount |-> amt, expense_date |-> t]

AnalyticsInput(u, p, s, e) ==
    [user_id |-> u, period |-> p, start_date |-> s, end_date |-> e]

TeamExpenseInput(u, team, c, amt, t) ==
    [user_id |-> u, team_id |-> team, category_id |-> c,
     amount |-> amt, expense_date |-> t]

CategoryInput(name, u) == [name |-> name, user_id |-> u]

TeamInput(manager) == [manager_id |-> manager]

NotificationInput(u, type, e) ==
    [user_id |-> u, type |-> type, related_expense_id |-> e]

ExpenseValues(u, c, amt, st, d) ==
    [user_id |-> u, category_id |-> c, amount |-> amt, status |-> st,
     expense_date |-> d]

----------------------------------------------------------------------------
(* The store after the fixtures: two users, two global categories *)

\* the sequences after the fixtures' inserts
InitialSerial ==
    [users |-> 3, categories |-> 3, teams |-> 1, team_members |-> 1,
     notifications |-> 1]

\* the account columns of the two users, no team member, no notification
InitOthers ==
    /\ accounts = (1 :> [email |-> "a@example.com",
                         password_hash |-> hashPassword("password123", 1),
                         is_active |-> TRUE])
                  @@ (2 :> [email |-> "b@example.com",
                            password_hash |-> hashPassword("password123", 2),
                            is_active |-> TRUE])
    /\ team_members = <<>>
    /\ notifications = <<>>
    /\ serial = InitialSerial
    /\ adding = <<>>

Init ==
    /\ users = {1, 2}
    /\ categories = (1 :> "Food") @@ (2 :> "Transport")
    /\ teams = {}
    /\ budgets = <<>>
    /\ expenses = <<>>
    /\ nextBudgetId = 1
    /\ nextExpenseId = 1
    /\ tz = 0
    /\ response = [op |-> "none", error |-> ""]
    /\ inflight = Idle
    /\ InitOthers

----------------------------------------------------------------------------
(* Budget overview over a store of budgets and expenses of every status *)

OverviewBudgetInputs ==
    {BudgetInput(1, NULL, 1, "MONTHLY", Instant(1, 0), Instant(2, 1), 80),
     BudgetInput(1, 1, 2, "YEARLY", Instant(3, 0), Instant(4, 0), 50),
     BudgetInput(1, 2, 5, "MONTHLY", Instant(3, 1), Instant(3, 1), UNDEFINED),
     BudgetInput(2, NULL, 3, "MONTHLY", Instant(1, 0), Instant(3, 0), 80)}

OverviewExpenseInputs ==
    {ExpenseInput(1, 1, 1, Instant(2, 0)),
     ExpenseInput(1, 2, 4, Instant(4, 1)),
     ExpenseInput(2, 1, 4, Instant(2, 1))}

OverviewExpenseValues ==
    {ExpenseValues(1, c, amt, "APPROVED", d) :
        c \in {1, 2}, amt \in {1, 4}, d \in {1, 4}}
    \cup {ExpenseValues(1, 1, amt, "REJECTED", 2) : amt \in {1, 4}}
    \cup {ExpenseValues(2, 1, 4, "APPROVED", 2)}

NextOverview ==
    \/ \E input \in OverviewBudgetInputs : createBudget(input)
    \/ \E input \in OverviewExpenseInputs : createExpense(input)
    \/ \E values \in OverviewExpenseValues : insertExpense(values)
    \/ \E userId \in {1, 2} : GetBudgetOverview(userId)

SpecOverview == Init /\ [][NextOverview]_vars

----------------------------------------------------------------------------
(* Alert checking over budgets with a window and expenses around it.  The *)
(* handler takes any amount, so a budget of amount 0 is among the inputs;  *)
(* only the route's schema asks for a positive one.                        *)

AlertBudgetInputs ==
    {BudgetInput(1, 1, 2, "MONTHLY", Instant(2, 1), Instant(3, 1), 50),
     BudgetInput(1, NULL, 4, "YEARLY", Instant(1, 0), Instant(4, 0), 100),
     BudgetInput(1, UNDEFINED, 0, "MONTHLY", Instant(2, 0), Instant(3, 0),
                 UNDEFINED),
     BudgetInput(2, 1, 2, "MONTHLY", Instant(2, 0), Instant(3, 0), 50)}

AlertExpenseInputs ==
    {ExpenseInput(1, 1, 1, Instant(2, 1)),
     ExpenseInput(2, 1, 2, Instant(3, 0))}

AlertExpenseValues ==
    {ExpenseValues(1, c, amt, "APPROVED", d) :
        c \in {1, 2}, amt \in {1, 2}, d \in 1..4}
    \cup {ExpenseValues(1, 1, 2, "REJECTED", 2),
          ExpenseValues(2, 1, 1, "APPROVED", 2)}

NextAlerts ==
    \/ \E input \in AlertBudgetInputs : createBudget(input)
    \/ \E input \in AlertExpenseInputs : createExpense(input)
    \/ \E values \in AlertExpenseValues : insertExpense(values)
    \/ \E userId \in {1, 2} : CheckBudgetAlerts(userId)

SpecAlerts == Init /\ [][NextAlerts]_vars

----------------------------------------------------------------------------
(* Analytics over budgets around the requested range and expenses of two *)
(* categories; amounts 1, 2, 9 and 10 give utilizations of 10, 50, 90, 100 *)

AnalyticsBudgetInputs ==
    {BudgetInput(1, 1, 2, "MONTHLY", Instant(2, 0), Instant(3, 0), 80),
     BudgetInput(1, NULL, 10, "MONTHLY", Instant(3, 1), Instant(4, 0), 80),
     BudgetInput(1, 2, 10, "MONTHLY", Instant(1, 0), Instant(1, 1), 80),
     BudgetInput(1, NULL, 2, "YEARLY", Instant(1, 0), Instant(4, 0), 80),
     BudgetInput(2, NULL, 2, "MONTHLY", Instant(2, 0), Instant(3, 0), 80)}

AnalyticsExpenseInputs ==
    {ExpenseInput(1, 1, 1, Instant(2, 1)),
     ExpenseInput(2, 1, 9, Instant(3, 0))}

AnalyticsExpenseValues ==
    {ExpenseValues(1, c, amt, "APPROVED", d) :
        c \in {1, 2}, amt \in {1, 9}, d \in 1..3}
    \cup {ExpenseValues(1, 1, 9, "REJECTED", 2),
          ExpenseValues(2, 1, 1, "APPROVED", 2)}

AnalyticsInputs ==
    {AnalyticsInput(1, p, Instant(2, 0), Instant(3, 1)) : p \in BudgetPeriod}
    \cup {AnalyticsInput(1, p, Instant(2, 1), Instant(2, 1)) : p \in BudgetPeriod}
    \cup {AnalyticsInput(2, "MONTHLY", Instant(2, 0), Instant(3, 1))}

NextAnalytics ==
    \/ \E input \in AnalyticsBudgetInputs : createBudget(input)
    \/ \E input \in AnalyticsExpenseInputs : createExpense(input)
    \/ \E values \in AnalyticsExpenseValues : insertExpense(values)
    \/ \E input \in AnalyticsInputs : GetBudgetAnalytics(input)

SpecAnalytics == Init /\ [][NextAnalytics]_vars

----------------------------------------------------------------------------
(* Analytics on servers whose clock is behind, at or ahead of UTC, over *)
(* ranges that start at a month's first instant, span two months, hold no *)
(* expense or end before they start *)

\* the server's local time minus UTC, in ticks
TimeZones == {-1, 0, 1}

InitZoned ==
    /\ users = {1, 2}
    /\ categories = (1 :> "Food") @@ (2 :> "Transport")
    /\ teams = {}
    /\ budgets = <<>>
    /\ expenses = <<>>
    /\ nextBudgetId = 1
    /\ nextExpenseId = 1
    /\ tz \in TimeZones
    /\ response = [op |-> "none", error |-> ""]
    /\ inflight = Idle
    /\ InitOthers

TrendBudgetInputs ==
    {BudgetInput(1, NULL, 4, "MONTHLY", Instant(2, 0), Instant(3, 1), 80),
     BudgetInput(2, NULL, 2, "MONTHLY", Instant(2, 0), Instant(3, 0), 80)}

TrendExpenseInputs ==
    {ExpenseInput(1, 1, 1, Instant(2, 1))}

TrendExpenseValues ==
    {ExpenseValues(1, 1, 1, "APPROVED", 2),
     ExpenseValues(1, 2, 2, "APPROVED", 3),
     ExpenseValues(1, 1, 4, "APPROVED", 5),
     ExpenseValues(1, 1, 2, "REJECTED", 3),
     ExpenseValues(2, 1, 1, "APPROVED", 3)}

TrendInputs ==
    {AnalyticsInput(1, "MONTHLY", Instant(2, 0), Instant(3, 1)),
     AnalyticsInput(1, "MONTHLY", Instant(3, 0), Instant(4, 1)),
     AnalyticsInput(1, "YEARLY", Instant(2, 1), Instant(5, 0)),
     AnalyticsInput(1, "MONTHLY", Instant(4, 0), Instant(3, 0))}

NextTrend ==
    \/ \E input \in TrendBudgetInputs : createBudget(input)
    \/ \E input \in TrendExpenseInputs : createExpense(input)
    \/ \E values \in TrendExpenseValues : insertExpense(values)
    \/ \E input \in TrendInputs : GetBudgetAnalytics(input)

SpecTrend == InitZoned /\ [][NextTrend]_vars

----------------------------------------------------------------------------
(* Dashboard statistics over expenses of every status; budgets of 3 and 32 *)
(* give percentages that do not end after two decimal places *)

DashboardBudgetInputs ==
    {BudgetInput(1, NULL, 3, "MONTHLY", Instant(1, 0), Instant(2, 1), 80),
     BudgetInput(1, 1, 32, "YEARLY", Instant(1, 0), Instant(4, 0), 80),
     BudgetInput(2, NULL, 3, "MONTHLY", Instant(1, 0), Instant(2, 0), 80)}

DashboardExpenseInputs ==
    {ExpenseInput(1, 1, 1, Instant(2, 1)),
     ExpenseInput(1, 2, 2, Instant(3, 0)),
     ExpenseInput(2, 1, 2, Instant(3, 0))}

DashboardExpenseValues ==
    {ExpenseValues(1, 1, amt, st, 1) :
        amt \in {1, 2}, st \in {"APPROVED", "REJECTED"}}
    \cup {ExpenseValues(1, 2, amt, st, 3) :
        amt \in {1, 2}, st \in {"APPROVED", "REJECTED"}}
    \cup {ExpenseValues(2, 2, 1, "APPROVED", 2)}

NextDashboard ==
    \/ \E input \in DashboardBudgetInputs : createBudget(input)
    \/ \E input \in DashboardExpenseInputs : createExpense(input)
    \/ \E values \in DashboardExpenseValues : insertExpense(values)
    \/ \E userId \in {1, 2} : GetDashboardStats(userId)

SpecDashboard == Init /\ [][NextDashboard]_vars

----------------------------------------------------------------------------
(* The dashboard over a table that already holds expenses created one after *)
(* the other, as the loop of the recent-expenses fixture leaves them: more *)
(* than the five the list shows, of two users in any interleaving *)

\* expenses created before the first call
MaxSeeded == 7

\* expense i of the loop, of amount i, made by owners[i]
SeededExpenses(owners) ==
    [i \in 1..Len(owners) |->
        insertedExpenseRow(i, ExpenseValues(owners[i], 1, i, "APPROVED", 2))]

InitRecent ==
    /\ users = {1, 2}
    /\ categories = (1 :> "Food") @@ (2 :> "Transport")
    /\ teams = {}
    /\ budgets = <<>>
    /\ \E owners \in SeqsUpTo({1, 2}, MaxSeeded) :
          /\ expenses = SeededExpenses(owners)
          /\ nextExpenseId = Len(owners) + 1
    /\ nextBudgetId = 1
    /\ tz = 0
    /\ response = [op |-> "none", error |-> ""]
    /\ inflight = Idle
    /\ InitOthers

RecentExpenseInputs ==
    {ExpenseInput(1, 2, 1, Instant(3, 0)),
     ExpenseInput(2, 2, 1, Instant(3, 0))}

RecentExpenseValues ==
    {ExpenseValues(1, 1, 2, "REJECTED", 1)}

NextRecent ==
    \/ \E input \in RecentExpenseInputs : createExpense(input)
    \/ \E values \in RecentExpenseValues : insertExpense(values)
    \/ \E userId \in {1, 2} : GetDashboardStats(userId)

SpecRecent == InitRecent /\ [][NextRecent]_vars

----------------------------------------------------------------------------
(* The four aggregators side by side, asked about two users with data and *)
(* about an id that no user row carries *)

UserIds == {1, 2, 3}

AggregatorBudgetInputs ==
    {BudgetInput(1, 1, 2, "MONTHLY", Instant(2, 0), Instant(3, 1), 50),
     BudgetInput(1, NULL, 4, "YEARLY", Instant(1, 0), Instant(4, 0), 80),
     BudgetInput(2, NULL, 2, "MONTHLY", Instant(2, 0), Instant(3, 0), 50)}

AggregatorExpenseInputs ==
    {ExpenseInput(1, 1, 1, Instant(2, 1)),
     ExpenseInput(2, 2, 2, Instant(3, 0))}

AggregatorExpenseValues ==
    {ExpenseValues(1, 1, 1, "APPROVED", 2),
     ExpenseValues(1, 2, 2, "APPROVED", 3),
     ExpenseValues(1, 1, 2, "REJECTED", 2),
     ExpenseValues(2, 1, 2, "APPROVED", 2),
     ExpenseValues(2, 2, 1, "APPROVED", 3)}

AggregatorAnalyticsInputs ==
    {AnalyticsInput(u, "MONTHLY", Instant(2, 0), Instant(3, 1)) : u \in UserIds}
    \cup {AnalyticsInput(1, "YEARLY", Instant(1, 0), Instant(4, 1))}

NextAggregators ==
    \/ \E input \in AggregatorBudgetInputs : createBudget(input)
    \/ \E input \in AggregatorExpenseInputs : createExpense(input)
    \/ \E values \in AggregatorExpenseValues : insertExpense(values)
    \/ \E userId \in UserIds : GetBudgetOverview(userId)
    \/ \E userId \in UserIds : CheckBudgetAlerts(userId)
    \/ \E input \in AggregatorAnalyticsInputs : GetBudgetAnalytics(input)
    \/ \E userId \in UserIds : GetDashboardStats(userId)

SpecAggregators == Init /\ [][NextAggregators]_vars

----------------------------------------------------------------------------
(* A getDashboardStats call with createBudget and createExpense calls of *)
(* the same and of another user running between its queries *)

InterleavedBudgetInputs ==
    {BudgetInput(1, NULL, 4, "MONTHLY", Instant(1, 0), Instant(4, 0), 80)}

InterleavedExpenseInputs ==
    {ExpenseInput(1, 1, 1, Instant(2, 1)),
     ExpenseInput(1, 2, 2, Instant(3, 0)),
     ExpenseInput(2, 1, 2, Instant(3, 0))}

NextInterleaved ==
    \/ \E input \in InterleavedBudgetInputs : createBudget(input)
    \/ \E input \in InterleavedExpenseInputs : createExpense(input)
    \/ \E userId \in {1, 2} : QueryExpenseStats(userId)
    \/ QueryBudget
    \/ QueryCategoryBreakdown
    \/ QueryMonthlyTrend
    \/ QueryRecentExpenses

SpecInterleaved == Init /\ [][NextInterleaved]_vars

----------------------------------------------------------------------------
(* Budgets created, updated and deleted with inputs the route's schema *)
(* accepts: any two dates, and updates of one date alone *)

\* budget ids the sequence hands out
MaxBudgetId == 4

BudgetsInputs ==
    {BudgetInput(1, NULL, 4, "MONTHLY", Instant(2, 0), Instant(3, 1), 80),
     BudgetInput(1, 1, 2, "YEARLY", Instant(3, 0), Instant(3, 0), 50),
     BudgetInput(2, 2, 2, "MONTHLY", Instant(4, 0), Instant(2, 0), 80)}
    \cup {BudgetInput(1, NULL, 4, "MONTHLY", Instant(2, 0), Instant(3, 1), th) :
            th \in {0, 100, UNDEFINED}}

UpdateBudgetInputs ==
    {UpdateBudgetInput(id, 5, 0, UNDEFINED, UNDEFINED) : id \in 1..2}
    \cup {UpdateBudgetInput(id, UNDEFINED, UNDEFINED, Instant(4, 1), UNDEFINED) :
            id \in 1..2}
    \cup {UpdateBudgetInput(id, UNDEFINED, UNDEFINED, UNDEFINED, Instant(1, 0)) :
            id \in 1..2}
    \cup {UpdateBudgetInput(id, UNDEFINED, UNDEFINED, Instant(1, 0), Instant(4, 0)) :
            id \in 1..2}

NextBudgets ==
    \/ /\ nextBudgetId <= MaxBudgetId
       /\ \E input \in BudgetsInputs : createBudget(input)
    \/ \E input \in UpdateBudgetInputs : updateBudget(input)
    \/ \E id \in 1..MaxBudgetId : deleteBudget(id)

SpecBudgets == Init /\ [][NextBudgets]_vars

----------------------------------------------------------------------------
(* Rows created with references to users, categories, teams and expenses *)
(* that are stored, not yet stored or deleted again; user 3 is never      *)
(* stored                                                                 *)

\* ids that the sequences of categories, teams, team_members and
\* notifications hand out, taken together
MaxCreated == 3

Created ==
    (serial.categories - InitialSerial.categories)
    + (serial.teams - InitialSerial.teams)
    + (serial.team_members - InitialSerial.team_members)
    + (serial.notifications - InitialSerial.notifications)

ReferenceBudgetInputs ==
    {BudgetInput(u, c, 1, "MONTHLY", Instant(1, 0), Instant(1, 0), 80) :
        u \in {1, 3}, c \in {NULL, 3}}

ReferenceExpenseInputs ==
    {TeamExpenseInput(u, team, c, 1, Instant(1, 0)) :
        u \in {1, 3}, team \in {UNDEFINED, 1}, c \in {1, 3}}

ReferenceCategoryInputs == {CategoryInput("Travel", u) : u \in {NULL, 2, 3}}

ReferenceTeamInputs == {TeamInput(manager) : manager \in {1, 3}}

ReferenceNotificationInputs ==
    {NotificationInput(u, "SYSTEM_UPDATE", e) :
        u \in {1, 3}, e \in {UNDEFINED, 1}}

NextReferences ==
    \/ \E input \in ReferenceBudgetInputs : createBudget(input)
    \/ \E input \in ReferenceExpenseInputs : createExpense(input)
    \/ /\ Created < MaxCreated
       /\ \E input \in ReferenceCategoryInputs : createCategory(input)
    \/ /\ Created < MaxCreated
       /\ \E input \in ReferenceTeamInputs : createTeam(input)
    \/ /\ Created < MaxCreated
       /\ \E teamId \in {1, 2}, userId \in {1, 2, 3} :
             addTeamMember(teamId, userId)
    \/ /\ Created < MaxCreated
       /\ \E input \in ReferenceNotificationInputs : createNotification(input)
    \/ \E id \in {1, 3} : deleteCategory(id)
    \/ \E id \in {1, 2} : deleteTeam(id)

SpecReferences == Init /\ [][NextReferences]_vars

----------------------------------------------------------------------------
(* Teams created and deleted, members added and removed, one call after *)
(* the other                                                             *)

NextTeams ==
    \/ /\ Created < MaxCreated
       /\ \E input \in ReferenceTeamInputs : createTeam(input)
    \/ \E id \in {1, 2} : deleteTeam(id)
    \/ /\ Created < MaxCreated
       /\ \E teamId \in {1, 2}, userId \in {1, 2, 3} :
             addTeamMember(teamId, userId)
    \/ \E teamId \in {1, 2}, userId \in {1, 2} :
          removeTeamMember(teamId, userId)

SpecTeams == Init /\ [][NextTeams]_vars

----------------------------------------------------------------------------
(* Accounts registered, updated, deactivated and logged into with the *)
(* right and a wrong password; user 3 is stored once it has registered *)

\* user ids the sequence hands out
MaxUserId == 3

Emails == {"a@example.com", "b@example.com", "c@example.com"}

Passwords == {"password123", "wrongpassword"}

\* what crypto.randomBytes(16) may draw
Salts == {1, 2}

RegisterInputs ==
    {[email |-> e, password |-> "password123"] :
        e \in {"a@example.com", "c@example.com"}}

LoginInputs == {[email |-> e, password |-> p] : e \in Emails, p \in Passwords}

UpdateUserInputs ==
    {[id |-> id, is_active |-> a] : id \in 1..3, a \in BOOLEAN}
    \cup {[id |-> id, email |-> e] :
            id \in 1..2, e \in {"b@example.com", "c@example.com"}}

NextAccounts ==
    \/ /\ serial.users <= MaxUserId
       /\ \E input \in RegisterInputs, salt \in Salts :
             registerUser(input, salt)
    \/ \E input \in LoginInputs : loginUser(input)
    \/ \E input \in UpdateUserInputs : updateUser(input)
    \/ \E id \in 1..3 : deleteUser(id)
    \/ \E userId \in 1..3, salt \in Salts :
          changePassword(userId, "wrongpassword", salt)

SpecAccounts == Init /\ [][NextAccounts]_vars

----------------------------------------------------------------------------
(* Notifications of two users created by createNotification and by the *)
(* three senders, read one by one and all at once, deleted and counted  *)

\* notification ids the sequence hands out
MaxNotificationId == 2

NotificationBudgetInputs ==
    {BudgetInput(1, NULL, 1, "MONTHLY", Instant(1, 0), Instant(1, 0), 80)}

NotificationExpenseInputs == {ExpenseInput(1, 1, 1, Instant(1, 0))}

NotificationInputs ==
    {NotificationInput(u, "SYSTEM_UPDATE", e) :
        u \in {1, 2}, e \in {UNDEFINED, 1}}

NextNotifications ==
    \/ \E input \in NotificationBudgetInputs : createBudget(input)
    \/ \E input \in NotificationExpenseInputs : createExpense(input)
    \/ /\ serial.notifications <= MaxNotificationId
       /\ \E input \in NotificationInputs : createNotification(input)
    \/ /\ serial.notifications <= MaxNotificationId
       /\ \E userId \in {2, 3} : sendBudgetAlert(userId, 1)
    \/ /\ serial.notifications <= MaxNotificationId
       /\ \E managerId \in {2, 3} :
             sendExpenseApprovalNotification(1, managerId)
    \/ /\ serial.notifications <= MaxNotificationId
       /\ \E userId \in {1, 3} : sendExpenseReminderNotification(userId)
    \/ \E id \in 1..MaxNotificationId : markNotificationAsRead(id)
    \/ \E userId \in 1..3 : markAllNotificationsAsRead(userId)
    \/ \E id \in 1..MaxNotificationId : deleteNotification(id)
    \/ \E userId \in 1..3 : getUnreadNotificationCount(userId)

SpecNotifications == Init /\ [][NextNotifications]_vars

----------------------------------------------------------------------------
(* The store filled through the handlers alone, from empty tables: users *)
(* register, categories, budgets and expenses are created, expenses are   *)
(* updated, approved, rejected and deleted, the overview is asked for     *)

InitEmpty ==
    /\ users = {}
    /\ categories = <<>>
    /\ teams = {}
    /\ budgets = <<>>
    /\ expenses = <<>>
    /\ nextBudgetId = 1
    /\ nextExpenseId = 1
    /\ tz = 0
    /\ response = [op |-> "none", error |-> ""]
    /\ inflight = Idle
    /\ accounts = <<>>
    /\ team_members = <<>>
    /\ notifications = <<>>
    /\ serial = [users |-> 1, categories |-> 1, teams |-> 1,
                 team_members |-> 1, notifications |-> 1]
    /\ adding = <<>>

HandlersRegisterInputs ==
    {[email |-> e, password |-> "password123"] :
        e \in {"a@example.com", "b@example.com"}}

HandlersCategoryInputs == {CategoryInput("Food", NULL)}

HandlersBudgetInputs ==
    {BudgetInput(u, NULL, 4, "MONTHLY", Instant(1, 0), Instant(2, 1), 80) :
        u \in {1, 2}}

HandlersExpenseInputs ==
    {ExpenseInput(u, 1, amt, Instant(1, 1)) : u \in {1, 2}, amt \in {1, 4}}

UpdateExpenseInputs ==
    {[id |-> id, category_id |-> UNDEFINED, amount |-> amt] :
        id \in 1..2, amt \in {UNDEFINED, 9}}

ApproveExpenseInputs ==
    {[expense_id |-> id, status |-> st, approved_by |-> 2] :
        id \in 1..2, st \in {"APPROVED", "REJECTED"}}

NextHandlers ==
    \/ /\ serial.users < MaxUserId
       /\ \E input \in HandlersRegisterInputs, salt \in Salts :
             registerUser(input, salt)
    \/ /\ Created < MaxCreated
       /\ \E input \in HandlersCategoryInputs : createCategory(input)
    \/ \E input \in HandlersBudgetInputs : createBudget(input)
    \/ \E input \in HandlersExpenseInputs : createExpense(input)
    \/ \E input \in UpdateExpenseInputs : updateExpense(input)
    \/ \E id \in 1..2 : deleteExpense(id)
    \/ \E input \in ApproveExpenseInputs : approveExpense(input)
    \/ \E userId \in 1..2 : GetBudgetOverview(userId)

SpecHandlers == InitEmpty /\ [][NextHandlers]_vars

----------------------------------------------------------------------------
(* addTeamMember calls that run at the same time, with teams created and *)
(* deleted and members removed between their statements                   *)

\* addTeamMember calls in progress at the same time
MaxCalls == 2

NextMembers ==
    \/ /\ Created < MaxCreated
       /\ \E input \in ReferenceTeamInputs : createTeam(input)
    \/ \E id \in {1, 2} : deleteTeam(id)
    \/ \E teamId \in {1, 2}, userId \in {1, 2} :
          removeTeamMember(teamId, userId)
    \/ /\ Created + Cardinality(DOMAIN adding) < MaxCreated
       /\ \E c \in 1..MaxCalls, teamId \in {1, 2}, userId \in {1, 3} :
             QueryTeam(c, teamId, userId)
    \/ \E c \in 1..MaxCalls : QueryUser(c)
    \/ \E c \in 1..MaxCalls : QueryExistingMembership(c)
    \/ \E c \in 1..MaxCalls : InsertTeamMember(c)

SpecMembers == Init /\ [][NextMembers]_vars

----------------------------------------------------------------------------
(* What the store itself says, computed over row positions *)

RECURSIVE SumAt(_, _)
SumAt(rows, S) ==
    IF S = {} THEN 0
    ELSE LET i == CHOOSE j \in S : TRUE
         IN  rows[i].amount + SumAt(rows, S \ {i})

ExpensesOf(u) == {i \in 1..Len(expenses) : expenses[i].user_id = u}

ApprovedOf(u) == {i \in ExpensesOf(u) : expenses[i].status = "APPROVED"}

BudgetsOf(u) == {i \in 1..Len(budgets) : budgets[i].user_id = u}

\* the tables without u's PENDING and REJECTED expenses
ApprovedOnly(u) ==
    [db EXCEPT !.expenses =
        SelectSeq(expenses,
                  LAMBDA e : e.user_id # u \/ e.status = "APPROVED")]

\* p = (part / whole) * 100
IsPercentOf(p, part, whole) == p.num * whole = 100 * part * p.den

Answered(op) == response.op = op /\ response.error = ""

----------------------------------------------------------------------------
(* Claims about getBudgetOverview *)

\* C1: getBudgetOverview(u).total_spent is the sum of the amounts of u's
\* APPROVED expenses over all dates and categories, and the PENDING and
\* REJECTED expenses of u change neither total_spent nor percentage_used:
\* the answer is the one the store without them gives.
C1_TotalSpentIsApprovedSum ==
    Answered("getBudgetOverview") =>
        LET u == response.userId
            r == response.result
            bare == getBudgetOverview(ApprovedOnly(u), u)
        IN  /\ r.total_spent = SumAt(expenses, ApprovedOf(u))
            /\ r.total_spent = bare.total_spent
            /\ r.percentage_used = bare.percentage_used

C1_Witness ==
    /\ Answered("getBudgetOverview")
    /\ response.result.total_spent > 0
    /\ \E i, j \in ApprovedOf(response.userId) :
          /\ expenses[i].category_id # expenses[j].category_id
          /\ expenses[i].expense_date # expenses[j].expense_date
    /\ \E k \in ExpensesOf(response.userId) : expenses[k].status # "APPROVED"

\* C4: total_budget is the sum of the amounts of all of u's budgets, whatever
\* their period, category and dates, and remaining is total_budget minus
\* total_spent, negative when more was spent than budgeted.
C4_RemainingIsBudgetMinusSpent ==
    Answered("getBudgetOverview") =>
        LET u == response.userId
            r == response.result
        IN  /\ r.total_budget = SumAt(budgets, BudgetsOf(u))
            /\ r.remaining =
                  SumAt(budgets, BudgetsOf(u)) - SumAt(expenses, ApprovedOf(u))
            /\ (r.total_spent > r.total_budget => r.remaining < 0)

C4_Witness ==
    /\ Answered("getBudgetOverview")
    /\ response.result.remaining < 0
    /\ \E i, j \in BudgetsOf(response.userId) :
          /\ budgets[i].period # budgets[j].period
          /\ budgets[i].category_id # budgets[j].category_id
          /\ budgets[i].end_date < budgets[j].start_date

\* C5: percentage_used is 0 when total_budget is 0, also when u has APPROVED
\* expenses and no budget, and total_spent / total_budget * 100 otherwise,
\* above 100 when more was spent than budgeted.
C5_PercentageUsed ==
    Answered("getBudgetOverview") =>
        LET u == response.userId
            r == response.result
            budgeted == SumAt(budgets, BudgetsOf(u))
            spent == SumAt(expenses, ApprovedOf(u))
        IN  /\ r.percentage_used.den > 0
            /\ (budgeted = 0 => r.percentage_used.num = 0)
            /\ (budgeted # 0 => IsPercentOf(r.percentage_used, spent, budgeted))

C5_Witness ==
    /\ Answered("getBudgetOverview")
    /\ response.result.total_budget > 0
    /\ response.result.percentage_used.num
          > 100 * response.result.percentage_used.den

C5_WitnessNoBudget ==
    /\ Answered("getBudgetOverview")
    /\ BudgetsOf(response.userId) = {}
    /\ ApprovedOf(response.userId) # {}

----------------------------------------------------------------------------
(* Claims about checkBudgetAlerts *)

\* u's APPROVED expenses dated inside the stored budget row's window, both
\* ends included, of its category when it has one
InBudget(u, b) ==
    {i \in ApprovedOf(u) :
        /\ b.start_date <= expenses[i].expense_date
        /\ expenses[i].expense_date <= b.end_date
        /\ (b.category_id # NULL => expenses[i].category_id = b.category_id)}

\* usage_percentage(b) >= b.alert_threshold, usage_percentage(b) being 0
\* for a budget of amount 0
ReachesThreshold(u, b) ==
    IF b.amount = 0 THEN 0 >= b.alert_threshold
    ELSE 100 * SumAt(expenses, InBudget(u, b)) >= b.alert_threshold * b.amount

AlertsFor(alerts, b) == {k \in 1..Len(alerts) : alerts[k].budget_id = b.id}

C2_WitnessZeroAmount ==
    /\ Answered("checkBudgetAlerts")
    /\ \E i \in BudgetsOf(response.userId) :
          /\ budgets[i].amount = 0
          /\ InBudget(response.userId, budgets[i]) # {}
          /\ AlertsFor(response.result, budgets[i]) = {}

\* C3: the amount_spent of a budget is the sum of u's APPROVED expenses dated
\* from its start_date to its end_date, both included, of the budget's
\* category when it has one and of every category when it has none.
C3_AmountSpentInWindow ==
    Answered("checkBudgetAlerts") =>
        LET u == response.userId
            alerts == response.result
        IN  /\ \A i \in BudgetsOf(u) :
                  spentInBudget(db, u, convertBudget(budgets[i]))
                      = SumAt(expenses, InBudget(u, budgets[i]))
            /\ \A k \in 1..Len(alerts) : \A i \in BudgetsOf(u) :
                  budgets[i].id = alerts[k].budget_id =>
                      alerts[k].amount_spent
                          = SumAt(expenses, InBudget(u, budgets[i]))

C3_Witness ==
    /\ Answered("checkBudgetAlerts")
    /\ \E k \in 1..Len(response.result) : \E i \in BudgetsOf(response.userId) :
          /\ budgets[i].id = response.result[k].budget_id
          /\ budgets[i].category_id # NULL
          /\ \E x \in InBudget(response.userId, budgets[i]) :
                expenses[x].expense_date = budgets[i].end_date
          /\ \E y \in ApprovedOf(response.userId) \ InBudget(response.userId, budgets[i]) :
                TRUE

C3_WitnessOverall ==
    /\ Answered("checkBudgetAlerts")
    /\ \E k \in 1..Len(response.result) : \E i \in BudgetsOf(response.userId) :
          /\ budgets[i].id = response.result[k].budget_id
          /\ budgets[i].category_id = NULL
          /\ \E x, y \in InBudget(response.userId, budgets[i]) :
                expenses[x].category_id # expenses[y].category_id

----------------------------------------------------------------------------
(* Claims about getBudgetAnalytics *)

\* the requested range in calendar days
FirstDay(input) == ToDateStr(input.start_date)

LastDay(input) == ToDateStr(input.end_date)

\* u's budgets of the requested period that end on or after the first day
\* and start on or before the last day
BudgetsInRange(input) ==
    {i \in BudgetsOf(input.user_id) :
        /\ budgets[i].period = input.period
        /\ budgets[i].end_date >= FirstDay(input)
        /\ budgets[i].start_date <= LastDay(input)}

\* u's APPROVED expenses dated from the first to the last day, both included
ApprovedInRange(input) ==
    {i \in ApprovedOf(input.user_id) :
        /\ FirstDay(input) <= expenses[i].expense_date
        /\ expenses[i].expense_date <= LastDay(input)}

ApprovedInRangeOf(input, c) ==
    {i \in ApprovedInRange(input) : expenses[i].category_id = c}

RECURSIVE SumAmountSpent(_)
SumAmountSpent(entries) ==
    IF entries = <<>> THEN 0
    ELSE Head(entries).amount_spent + SumAmountSpent(Tail(entries))

\* C8: budget_utilization is total_spent / total_budgeted * 100, where
\* total_budgeted sums the user's budgets of the period that overlap the
\* range and total_spent sums the user's APPROVED expenses dated in the
\* range, and it is 0 when total_budgeted is 0.
C8_BudgetUtilization ==
    Answered("getBudgetAnalytics") =>
        LET input == response.input
            r == response.result
            total_budgeted == SumAt(budgets, BudgetsInRange(input))
            total_spent == SumAt(expenses, ApprovedInRange(input))
        IN  /\ r.budget_utilization.den > 0
            /\ (total_budgeted = 0 => r.budget_utilization.num = 0)
            /\ (total_budgeted # 0 =>
                  IsPercentOf(r.budget_utilization, total_spent, total_budgeted))

C8_Witness ==
    /\ Answered("getBudgetAnalytics")
    /\ response.result.budget_utilization.num > 0
    /\ BudgetsInRange(response.input) # {}
    /\ BudgetsOf(response.input.user_id) \ BudgetsInRange(response.input) # {}
    /\ \E i \in ApprovedInRange(response.input) :
          expenses[i].expense_date = FirstDay(response.input)
    /\ FromDateStr(FirstDay(response.input)) # response.input.start_date

C8_WitnessNothingBudgeted ==
    /\ Answered("getBudgetAnalytics")
    /\ BudgetsInRange(response.input) = {}
    /\ BudgetsOf(response.input.user_id) # {}
    /\ ApprovedInRange(response.input) # {}

\* C9: category_breakdown holds exactly one entry for each category in which
\* the user has an APPROVED expense dated in the range, with the sum of those
\* expenses as amount_spent and amount_spent / total_spent * 100 as
\* percentage; the amounts of the entries sum to total_spent.
C9_CategoryBreakdown ==
    Answered("getBudgetAnalytics") =>
        LET input == response.input
            breakdown == response.result.category_breakdown
            total_spent == SumAt(expenses, ApprovedInRange(input))
            EntriesOf(c) ==
                {k \in 1..Len(breakdown) : breakdown[k].category_id = c}
        IN  /\ \A c \in DOMAIN categories :
                  Cardinality(EntriesOf(c)) =
                      IF ApprovedInRangeOf(input, c) # {} THEN 1 ELSE 0
            /\ \A k \in 1..Len(breakdown) :
                  /\ breakdown[k].category_id \in DOMAIN categories
                  /\ breakdown[k].amount_spent =
                        SumAt(expenses,
                              ApprovedInRangeOf(input, breakdown[k].category_id))
                  /\ breakdown[k].percentage.den > 0
                  /\ IF total_spent = 0
                     THEN breakdown[k].percentage.num = 0
                     ELSE IsPercentOf(breakdown[k].percentage,
                                      breakdown[k].amount_spent, total_spent)
            /\ SumAmountSpent(breakdown) = total_spent
            /\ response.result.spending_trend[1].amount = total_spent

C9_Witness ==
    /\ Answered("getBudgetAnalytics")
    /\ Len(response.result.category_breakdown) = 2
    /\ \E i \in ApprovedOf(response.input.user_id) :
          i \notin ApprovedInRange(response.input)

C9_WitnessSum ==
    /\ Answered("getBudgetAnalytics")
    /\ \E c \in DOMAIN categories :
          Cardinality(ApprovedInRangeOf(response.input, c)) = 2
    /\ \E i \in ExpensesOf(response.input.user_id) :
          expenses[i].status # "APPROVED"

\* C10: recommendations holds the reduce-spending advice exactly when
\* budget_utilization is above 90, the room-to-spend advice exactly when it
\* is below 50, and nothing else; from 50 to 90 it is empty.
C10_Recommendations ==
    Answered("getBudgetAnalytics") =>
        LET r == response.result
            advice == {r.recommendations[k] : k \in 1..Len(r.recommendations)}
        IN  /\ ReduceSpending \in advice <=> MoreThan(r.budget_utilization, 90)
            /\ RoomToSpend \in advice <=> LessThan(r.budget_utilization, 50)
            /\ advice \subseteq {ReduceSpending, RoomToSpend}
            /\ Len(r.recommendations) = Cardinality(advice)
            /\ (AtLeast(r.budget_utilization, 50)
                  /\ ~MoreThan(r.budget_utilization, 90)
                    => r.recommendations = <<>>)

C10_Witness ==
    /\ Answered("getBudgetAnalytics")
    /\ response.result.budget_utilization.num
          = 90 * response.result.budget_utilization.den
    /\ response.result.recommendations = <<>>

C10_WitnessFifty ==
    /\ Answered("getBudgetAnalytics")
    /\ response.result.budget_utilization.num
          = 50 * response.result.budget_utilization.den
    /\ response.result.recommendations = <<>>

C10_WitnessReduce ==
    /\ Answered("getBudgetAnalytics")
    /\ response.result.recommendations = <<ReduceSpending>>

C10_WitnessRoom ==
    /\ Answered("getBudgetAnalytics")
    /\ response.result.budget_utilization.num > 0
    /\ response.result.recommendations = <<RoomToSpend>>

Renumbered(rows) == [i \in 1..Len(rows) |-> [rows[i] EXCEPT !.id = i]]

\* the tables of at most MaxRows rows that createBudget, createExpense and
\* direct inserts build from the analytics inputs
AnalyticsStores ==
    LET budgetRows ==
            {createBudgetRow(input) : input \in AnalyticsBudgetInputs}
        expenseRows ==
            {insertedExpenseRow(1, values) : values \in AnalyticsExpenseValues}
            \cup {createExpenseRow(input) : input \in AnalyticsExpenseInputs}
    IN  UNION {{[db EXCEPT !.budgets = Renumbered(bs),
                          !.expenses = Renumbered(es)] :
                    es \in SeqsUpTo(expenseRows, MaxRows - Len(bs))} :
                bs \in SeqsUpTo(budgetRows, MaxRows)}

AdviceOf(r) == {r.recommendations[k] : k \in 1..Len(r.recommendations)}

HasBothAdvices(r) == {ReduceSpending, RoomToSpend} \subseteq AdviceOf(r)

HasNeitherAdvice(r) == AdviceOf(r) \cap {ReduceSpending, RoomToSpend} = {}

\* C11 as claimed: some input and store state give recommendations holding
\* both the reduce-spending and the room-to-spend advice, and some give
\* recommendations holding neither.
C11_BothAndNeitherMayApply ==
    /\ \E d \in AnalyticsStores : \E input \in AnalyticsInputs :
          \E r \in getBudgetAnalytics(d, input, tz) : HasBothAdvices(r)
    /\ \E d \in AnalyticsStores : \E input \in AnalyticsInputs :
          \E r \in getBudgetAnalytics(d, input, tz) : HasNeitherAdvice(r)

\* C11: no input and store state give recommendations holding both the
\* reduce-spending and the room-to-spend advice; some input and store state
\* give recommendations holding neither.
C11_NeverBothAdvices ==
    Answered("getBudgetAnalytics") => ~HasBothAdvices(response.result)

C11_Witness ==
    /\ Answered("getBudgetAnalytics")
    /\ HasNeitherAdvice(response.result)
    /\ MoreThan(response.result.budget_utilization, 50)
    /\ LessThan(response.result.budget_utilization, 90)

\* C12: spending_trend holds exactly one entry; its amount is total_spent,
\* the sum of the user's APPROVED expenses dated in the whole requested
\* range, and its period is the year-month of start_date as the server's
\* clock reads it (days 2m-1 and 2m make month m); so it is when the range
\* spans several months and when it holds no expense.
C12_SpendingTrendSingleBucket ==
    Answered("getBudgetAnalytics") =>
        LET input == response.input
            trend == response.result.spending_trend
            localDay == (input.start_date + tz) \div TicksPerDay
        IN  /\ Len(trend) = 1
            /\ trend[1].amount = SumAt(expenses, ApprovedInRange(input))
            /\ 2 * trend[1].period - 1 <= localDay
            /\ localDay <= 2 * trend[1].period

C12_Witness ==
    /\ Answered("getBudgetAnalytics")
    /\ \E i, j \in ApprovedInRange(response.input) :
          ToMonth(expenses[i].expense_date) # ToMonth(expenses[j].expense_date)
    /\ ToMonth(LastDay(response.input)) # ToMonth(FirstDay(response.input))
    /\ Len(response.result.spending_trend) = 1

C12_WitnessNoExpense ==
    /\ Answered("getBudgetAnalytics")
    /\ ApprovedInRange(response.input) = {}
    /\ ApprovedOf(response.input.user_id) # {}
    /\ response.result.spending_trend[1].amount = 0

C12_WitnessLocalMonth ==
    /\ Answered("getBudgetAnalytics")
    /\ response.result.spending_trend[1].period
          # ToMonth(FirstDay(response.input))

----------------------------------------------------------------------------
(* Claims about getDashboardStats *)

NotApprovedOf(u) == ExpensesOf(u) \ ApprovedOf(u)

\* C6: total_expenses is the number of all of u's expenses and
\* total_amount_spent the sum of their amounts, whatever their status, so
\* the dashboard total exceeds getBudgetOverview(u).total_spent by the
\* amounts of u's expenses that are not APPROVED: by the amount of the
\* PENDING expense when that is the only one.
C6_DashboardCountsEveryStatus ==
    Answered("getDashboardStats") =>
        LET u == response.userId
            r == response.result
            excess == r.total_amount_spent - getBudgetOverview(db, u).total_spent
        IN  /\ r.total_expenses = Cardinality(ExpensesOf(u))
            /\ r.total_amount_spent = SumAt(expenses, ExpensesOf(u))
            /\ excess = SumAt(expenses, NotApprovedOf(u))
            /\ \A i \in ExpensesOf(u) :
                  expenses[i].status = "PENDING" =>
                      /\ excess >= expenses[i].amount
                      /\ (NotApprovedOf(u) = {i} => excess = expenses[i].amount)

C6_Witness ==
    /\ Answered("getDashboardStats")
    /\ \E i \in ExpensesOf(response.userId) :
          /\ expenses[i].status = "PENDING"
          /\ NotApprovedOf(response.userId) = {i}
    /\ ApprovedOf(response.userId) # {}
    /\ response.result.total_amount_spent > response.result.total_expenses

C6_WitnessRejected ==
    /\ Answered("getDashboardStats")
    /\ \E i, j \in ExpensesOf(response.userId) :
          /\ expenses[i].status = "PENDING"
          /\ expenses[j].status = "REJECTED"

\* C7: budget_usage_percentage is 0 when u's budget amounts sum to 0, and
\* otherwise total_amount_spent / that sum * 100 to two decimal places: a
\* number of hundredths at most half a hundredth away from the quotient,
\* total_amount_spent covering the expenses of every status.
C7_BudgetUsageRounded ==
    Answered("getDashboardStats") =>
        LET u == response.userId
            p == response.result.budget_usage_percentage
            total_budget == SumAt(budgets, BudgetsOf(u))
            spent == SumAt(expenses, ExpensesOf(u))
            gap == p.num * total_budget - 100 * 100 * spent
        IN  /\ p.den = 100
            /\ (total_budget = 0 => p.num = 0)
            /\ (total_budget # 0 =>
                  /\ 2 * gap <= total_budget
                  /\ 2 * (-gap) <= total_budget)

C7_Witness ==
    /\ Answered("getDashboardStats")
    /\ BudgetsOf(response.userId) # {}
    /\ NotApprovedOf(response.userId) # {}
    /\ response.result.budget_usage_percentage.num
          * SumAt(budgets, BudgetsOf(response.userId))
             > 100 * 100 * response.result.total_amount_spent

C7_WitnessHalf ==
    /\ Answered("getDashboardStats")
    /\ BudgetsOf(response.userId) # {}
    /\ 2 * (response.result.budget_usage_percentage.num
              * SumAt(budgets, BudgetsOf(response.userId))
            - 100 * 100 * response.result.total_amount_spent)
          = SumAt(budgets, BudgetsOf(response.userId))

C7_WitnessNoBudget ==
    /\ Answered("getDashboardStats")
    /\ BudgetsOf(response.userId) = {}
    /\ response.result.total_amount_spent > 0
    /\ response.result.budget_usage_percentage.num = 0

\* u's expenses of category c
ExpensesOfIn(u, c) == {i \in ExpensesOf(u) : expenses[i].category_id = c}

\* C13: category_breakdown holds exactly one entry for each category in
\* which u's expenses of any status sum to more than 0, with that sum as
\* amount_spent and amount_spent / total_amount_spent * 100 as percentage;
\* a category used only by other users has no entry, and the amounts of the
\* entries sum to total_amount_spent.
C13_DashboardCategoryBreakdown ==
    Answered("getDashboardStats") =>
        LET u == response.userId
            r == response.result
            breakdown == r.category_breakdown
            EntriesOf(c) ==
                {k \in 1..Len(breakdown) :
                    breakdown[k].category_name = categories[c]}
        IN  /\ \A c \in DOMAIN categories :
                  /\ Cardinality(EntriesOf(c)) =
                        IF SumAt(expenses, ExpensesOfIn(u, c)) > 0 THEN 1 ELSE 0
                  /\ (ExpensesOfIn(u, c) = {} => EntriesOf(c) = {})
                  /\ \A k \in EntriesOf(c) :
                        /\ breakdown[k].amount_spent =
                              SumAt(expenses, ExpensesOfIn(u, c))
                        /\ breakdown[k].percentage.den > 0
                        /\ IsPercentOf(breakdown[k].percentage,
                                       breakdown[k].amount_spent,
                                       SumAt(expenses, ExpensesOf(u)))
            /\ \A k \in 1..Len(breakdown) :
                  \E c \in DOMAIN categories : k \in EntriesOf(c)
            /\ SumAmountSpent(breakdown) = r.total_amount_spent

C13_Witness ==
    /\ Answered("getDashboardStats")
    /\ Len(response.result.category_breakdown) = 1
    /\ NotApprovedOf(response.userId) # {}
    /\ \E i \in 1..Len(expenses) :
          /\ expenses[i].user_id # response.userId
          /\ ExpensesOfIn(response.userId, expenses[i].category_id) = {}

C13_WitnessTwoCategories ==
    /\ Answered("getDashboardStats")
    /\ Len(response.result.category_breakdown) = 2
    /\ \E c \in DOMAIN categories :
          Cardinality(ExpensesOfIn(response.userId, c)) = 2

\* days 2m-1 and 2m make month m
InMonth(day, m) == 2 * m - 1 <= day /\ day <= 2 * m

ExpensesOfMonth(u, m) ==
    {i \in ExpensesOf(u) : InMonth(expenses[i].expense_date, m)}

CreatedAt(e) == CHOOSE i \in 1..Len(expenses) : expenses[i].id = e.id

\* C15: recent_expenses holds min(5, total_expenses) expenses, each one an
\* expense of u, the later created before the earlier created, and every
\* expense of u that is not listed was created before every listed one.
C15_RecentExpenses ==
    Answered("getDashboardStats") =>
        LET u == response.userId
            r == response.result
            recent == r.recent_expenses
            Listed == {CreatedAt(recent[k]) : k \in 1..Len(recent)}
        IN  /\ Len(recent) =
                  IF r.total_expenses < 5 THEN r.total_expenses ELSE 5
            /\ r.total_expenses = Cardinality(ExpensesOf(u))
            /\ \A k \in 1..Len(recent) :
                  /\ recent[k].user_id = u
                  /\ \E i \in ExpensesOf(u) :
                        recent[k] = convertExpense(expenses[i])
            /\ \A k \in 1..(Len(recent) - 1) :
                  CreatedAt(recent[k]) > CreatedAt(recent[k + 1])
            /\ \A i \in ExpensesOf(u) \ Listed : \A j \in Listed : i < j

C15_Witness ==
    /\ Answered("getDashboardStats")
    /\ response.result.total_expenses > 5
    /\ Len(response.result.recent_expenses) = 5
    /\ \E i \in 1..Len(expenses) :
          /\ expenses[i].user_id # response.userId
          /\ i > CreatedAt(response.result.recent_expenses[5])

C15_WitnessFewer ==
    /\ Answered("getDashboardStats")
    /\ response.result.total_expenses > 1
    /\ response.result.total_expenses < 5
    /\ Len(response.result.recent_expenses) = response.result.total_expenses
    /\ \E k \in 1..Len(response.result.recent_expenses) :
          response.result.recent_expenses[k].status = "PENDING"

----------------------------------------------------------------------------
(* Claims about the aggregators together *)

OwnsNothing(u) == BudgetsOf(u) = {} /\ ExpensesOf(u) = {}

\* C16: for a user id that owns no budget and no expense, whether a user row
\* carries the id or not, getBudgetOverview returns no budgets and zero
\* total_budget, total_spent, remaining and percentage_used,
\* checkBudgetAlerts returns an empty list and getDashboardStats returns
\* zero totals and empty lists; none of them fails.
C16_EmptyForUserWithoutData ==
    /\ response.op = "getBudgetOverview" /\ OwnsNothing(response.userId) =>
          /\ response.error = ""
          /\ response.result.budgets = <<>>
          /\ response.result.total_budget = 0
          /\ response.result.total_spent = 0
          /\ response.result.remaining = 0
          /\ response.result.percentage_used.num = 0
    /\ response.op = "checkBudgetAlerts" /\ OwnsNothing(response.userId) =>
          /\ response.error = ""
          /\ response.result = <<>>
    /\ response.op = "getDashboardStats" /\ OwnsNothing(response.userId) =>
          /\ response.error = ""
          /\ response.result.total_expenses = 0
          /\ response.result.total_amount_spent = 0
          /\ response.result.budget_usage_percentage.num = 0
          /\ response.result.category_breakdown = <<>>
          /\ response.result.monthly_trend = <<>>
          /\ response.result.recent_expenses = <<>>

C16_Witness ==
    /\ response.op = "getBudgetOverview"
    /\ response.userId \notin users
    /\ OwnsNothing(response.userId)
    /\ budgets # <<>>
    /\ \E i \in 1..Len(expenses) : expenses[i].status = "APPROVED"

C16_WitnessAlerts ==
    /\ response.op = "checkBudgetAlerts"
    /\ response.userId \notin users
    /\ \E u \in users : checkBudgetAlerts(db, u) # <<>>

C16_WitnessDashboard ==
    /\ response.op = "getDashboardStats"
    /\ response.userId \notin users
    /\ budgets # <<>>
    /\ expenses # <<>>

C16_WitnessUserRow ==
    /\ response.op \in {"getBudgetOverview", "checkBudgetAlerts",
                         "getDashboardStats"}
    /\ response.userId \in users
    /\ OwnsNothing(response.userId)
    /\ budgets # <<>>
    /\ expenses # <<>>

QueryOps == {"getBudgetOverview", "checkBudgetAlerts", "getBudgetAnalytics",
             "getDashboardStats"}

\* the arguments of the call a response answers
ArgsOf(resp) ==
    IF resp.op = "getBudgetAnalytics" THEN resp.input ELSE resp.userId

\* this step is a call of an aggregator that follows a call of the same
\* aggregator with the same arguments, nothing having been written between
RepeatedCall ==
    /\ response.op \in QueryOps
    /\ response'.op = response.op
    /\ ArgsOf(response') = ArgsOf(response)

Entries(list) == {list[k] : k \in 1..Len(list)}

\* equal answers, the category_breakdown entries compared whatever their order
SameUpToBreakdownOrder(op, r1, r2) ==
    IF op \in {"getBudgetAnalytics", "getDashboardStats"}
    THEN /\ [r1 EXCEPT !.category_breakdown = <<>>]
              = [r2 EXCEPT !.category_breakdown = <<>>]
         /\ Len(r1.category_breakdown) = Len(r2.category_breakdown)
         /\ Entries(r1.category_breakdown) = Entries(r2.category_breakdown)
    ELSE r1 = r2

C17_WitnessAlerts ==
    /\ Answered("checkBudgetAlerts")
    /\ response.result # <<>>

\* the tables with the budgets and expenses of every user but u removed
OnlyOf(u) ==
    [db EXCEPT !.budgets = SelectSeq(budgets, LAMBDA b : b.user_id = u),
               !.expenses = SelectSeq(expenses, LAMBDA e : e.user_id = u)]

\* C18: what each aggregator answers about u is what it answers on the
\* store holding u's budgets and expenses alone, so the answers are the same
\* in any two stores that agree on u's budgets and expenses, whatever
\* budgets and expenses other users have; the answer just given is such an
\* answer.
C18_UserIsolation ==
    /\ \A u \in UserIds :
          /\ getBudgetOverview(db, u) = getBudgetOverview(OnlyOf(u), u)
          /\ checkBudgetAlerts(db, u) = checkBudgetAlerts(OnlyOf(u), u)
          /\ getDashboardStats(db, u) = getDashboardStats(OnlyOf(u), u)
    /\ \A input \in AggregatorAnalyticsInputs :
          getBudgetAnalytics(db, input, tz)
              = getBudgetAnalytics(OnlyOf(input.user_id), input, tz)
    /\ Answered("getBudgetOverview") =>
          response.result
              = getBudgetOverview(OnlyOf(response.userId), response.userId)
    /\ Answered("checkBudgetAlerts") =>
          response.result
              = checkBudgetAlerts(OnlyOf(response.userId), response.userId)
    /\ Answered("getDashboardStats") =>
          response.result
              \in getDashboardStats(OnlyOf(response.userId), response.userId)
    /\ Answered("getBudgetAnalytics") =>
          response.result
              \in getBudgetAnalytics(OnlyOf(response.input.user_id),
                                     response.input, tz)

C18_Witness ==
    /\ Answered("checkBudgetAlerts")
    /\ response.result # <<>>
    /\ \E i \in BudgetsOf(response.userId) : \E j \in 1..Len(expenses) :
          /\ expenses[j].user_id # response.userId
          /\ expenses[j].status = "APPROVED"
          /\ budgets[i].start_date <= expenses[j].expense_date
          /\ expenses[j].expense_date <= budgets[i].end_date
          /\ budgets[i].category_id \in {NULL, expenses[j].category_id}

C18_WitnessDashboard ==
    /\ Answered("getDashboardStats")
    /\ response.result.total_expenses > 0
    /\ \E i \in 1..Len(budgets) : budgets[i].user_id # response.userId
    /\ \E j \in 1..Len(expenses) : expenses[j].user_id # response.userId

C18_WitnessAnalytics ==
    /\ Answered("getBudgetAnalytics")
    /\ response.result.category_breakdown # <<>>
    /\ \E i \in 1..Len(budgets) :
          /\ budgets[i].user_id # response.input.user_id
          /\ budgets[i].period = response.input.period
    /\ \E j \in 1..Len(expenses) :
          /\ expenses[j].user_id # response.input.user_id
          /\ expenses[j].status = "APPROVED"

C18_WitnessOverview ==
    /\ Answered("getBudgetOverview")
    /\ response.result.total_spent > 0
    /\ \E i \in 1..Len(budgets) : budgets[i].user_id # response.userId
    /\ \E j \in 1..Len(expenses) :
          /\ expenses[j].user_id # response.userId
          /\ expenses[j].status = "APPROVED"

----------------------------------------------------------------------------
(* Claims about calls that run at the same time *)

\* u's expenses among the first k that were created
CountedOf(u, k) == {i \in ExpensesOf(u) : i <= k}

\* the tables when they held their first nb budgets and first ne expenses:
\* rows are only added, so every state the store went through is one of these
Earlier(nb, ne) ==
    [db EXCEPT !.budgets = SubSeq(budgets, 1, nb),
               !.expenses = SubSeq(expenses, 1, ne)]

MatchesSomeStore(u, r) ==
    \E nb \in 0..Len(budgets) : \E ne \in 0..Len(expenses) :
        r \in getDashboardStats(Earlier(nb, ne), u)

\* C19: getDashboardStats reads the store in separate queries with no
\* transaction around them: the recent-expenses query sees the store as it
\* is when the call returns, expenses created since the count/sum query
\* included, while total_expenses and total_amount_spent are those of the
\* earlier store that held the first k expenses; the list and the count
\* disagree only when an expense of the user was created in between, and
\* then the result can list an expense it does not count, as no single
\* store state would.
C19_DashboardQueriesNotIsolated ==
    Answered("getDashboardStats") =>
        LET u == response.userId
            r == response.result
        IN  /\ r.recent_expenses = recentExpenses(db, u)
            /\ \E k \in 0..Len(expenses) :
                  /\ r.total_expenses = Cardinality(CountedOf(u, k))
                  /\ r.total_amount_spent = SumAt(expenses, CountedOf(u, k))
            /\ (r.total_expenses = Cardinality(ExpensesOf(u)) =>
                  Len(r.recent_expenses) =
                      IF r.total_expenses < 5 THEN r.total_expenses ELSE 5)

C19_Witness ==
    /\ Answered("getDashboardStats")
    /\ response.result.total_expenses = 0
    /\ Len(response.result.recent_expenses) = 1
    /\ response.result.recent_expenses[1].user_id = response.userId
    /\ ~MatchesSomeStore(response.userId, response.result)

C19_WitnessUntorn ==
    /\ Answered("getDashboardStats")
    /\ response.result.total_expenses > 0
    /\ MatchesSomeStore(response.userId, response.result)
    /\ response.result \in getDashboardStats(db, response.userId)

----------------------------------------------------------------------------
(* Claims about the stored budgets *)

\* C20: after any sequence of createBudget, updateBudget and deleteBudget
\* calls every stored budget has start_date <= end_date.
C20_StartNotAfterEnd ==
    \A i \in 1..Len(budgets) : budgets[i].start_date <= budgets[i].end_date

\* the threshold the budget of a createBudget input is to carry
givenThreshold(input) ==
    IF input.alert_threshold = UNDEFINED
    THEN DefaultAlertThreshold ELSE input.alert_threshold

\* C21: createBudget stores exactly the alert_threshold it is given, for
\* every value from 0 to 100, and 80 only when none is given; the budget it
\* returns and the one a following getBudgetById returns carry that value.
C21_StoresGivenThreshold ==
    [][\A input \in BudgetsInputs :
          createBudget(input) /\ response'.error = "" =>
             /\ budgets'[Len(budgets')].alert_threshold
                   = givenThreshold(input)
             /\ response'.result.alert_threshold = givenThreshold(input)
             /\ \E id \in 1..MaxBudgetId :
                   /\ id = response'.result.id
                   /\ getBudgetById(id)' = <<response'.result>>]_vars

----------------------------------------------------------------------------
(* Claims about references between the tables *)

\* no reference is given
Absent(id) == id \in {NULL, UNDEFINED}

\* the id is given and no row of ids carries it
Missing(id, ids) == ~Absent(id) /\ id \notin ids

ExpenseIds == {expenses[i].id : i \in 1..Len(expenses)}

\* this step threw and wrote nothing
Refused == response'.error # "" /\ store' = store

C22_WitnessDeleted ==
    /\ response.op = "createExpense"
    /\ response.error = "Team does not exist"
    /\ serial.teams > InitialSerial.teams

C22_WitnessExpense ==
    /\ response.op = "createNotification"
    /\ response.error = "Expense not found"

\* C23: deleteCategory(id) throws 'Cannot delete category with existing
\* expenses' and deletes nothing whenever an expense references the
\* category; when none does it removes the category and returns success
\* true, and for an id that is not stored it returns success false without
\* throwing; so every stored expense references an existing category.
C23_DeleteCategory ==
    [][/\ response'.op = "deleteCategory" =>
             \A id \in {1, 3} :
                deleteCategory(id) =>
                   IF \E i \in 1..Len(expenses) : expenses[i].category_id = id
                   THEN /\ response'.error
                              = "Cannot delete category with existing expenses"
                        /\ store' = store
                   ELSE IF id \in DOMAIN categories
                   THEN /\ response' = Returned("deleteCategory",
                                                [success |-> TRUE])
                        /\ DOMAIN categories' = DOMAIN categories \ {id}
                   ELSE /\ response' = Returned("deleteCategory",
                                                [success |-> FALSE])
                        /\ store' = store
       /\ \A i \in 1..Len(expenses') :
             expenses'[i].category_id \in DOMAIN categories']_vars

\* C24: deleteTeam(id) on any existing team returns success true, after
\* which the team row and every team_members row of that team are gone; on
\* an id that is not stored it throws 'Team not found' and changes nothing.
C24_DeleteTeam ==
    [][response'.op = "deleteTeam" =>
          \A id \in {1, 2} :
             deleteTeam(id) =>
                IF id \in teams
                THEN /\ response' = Returned("deleteTeam", [success |-> TRUE])
                     /\ id \notin teams'
                     /\ \A i \in 1..Len(team_members') :
                           team_members'[i].team_id # id
                ELSE /\ response'.error = "Team not found"
                     /\ store' = store]_vars

----------------------------------------------------------------------------
(* Claims about team members *)

MembershipsOf(teamId, userId) ==
    {i \in 1..Len(team_members) :
        /\ team_members[i].team_id = teamId
        /\ team_members[i].user_id = userId}

\* C25: with calls running one after another, addTeamMember(t, u) on an
\* existing membership throws 'User is already a team member' and leaves
\* team_members unchanged, removeTeamMember(t, u) on a missing membership
\* throws 'Team membership not found', and there is at most one membership
\* row per (team, user) pair.
C25_OneMembershipPerPair ==
    [][/\ response'.op = "addTeamMember" =>
             \A teamId \in {1, 2}, userId \in {1, 2, 3} :
                /\ MembershipsOf(teamId, userId) # {}
                /\ addTeamMember(teamId, userId)
                => /\ response'.error = "User is already a team member"
                   /\ team_members' = team_members
       /\ response'.op = "removeTeamMember" =>
             \A teamId \in {1, 2}, userId \in {1, 2} :
                /\ MembershipsOf(teamId, userId) = {}
                /\ removeTeamMember(teamId, userId)
                => response'.error = "Team membership not found"
       /\ \A teamId \in {1, 2}, userId \in {1, 2, 3} :
             Cardinality(MembershipsOf(teamId, userId)') <= 1]_vars

C25_Witness ==
    /\ response.op = "addTeamMember"
    /\ response.error = "User is already a team member"
    /\ Len(team_members) = 1

C25_WitnessRemoved ==
    /\ response.op = "removeTeamMember"
    /\ response.error = "Team membership not found"
    /\ serial.team_members > InitialSerial.team_members

----------------------------------------------------------------------------
(* Claims about accounts *)

Deactivated(u) == u \in users /\ ~accounts[u].is_active

\* C26: after deleteUser(id) returns success true the user row still exists
\* with is_active = false, and every loginUser with that user's email fails
\* with 'Account is deactivated', whatever the password, until an
\* updateUser sets is_active back to true; deleteUser on an id that is not
\* stored returns success false and changes nothing.
C26_DeactivatedUntilUpdated ==
    [][/\ response'.op = "deleteUser" =>
             \A id \in 1..3 :
                deleteUser(id) =>
                   IF id \in users
                   THEN /\ response'.result.success
                        /\ Deactivated(id)'
                   ELSE /\ ~response'.result.success
                        /\ response'.error = ""
                        /\ store' = store
       /\ response'.op = "loginUser" =>
             \A input \in LoginInputs :
                /\ \E u \in users :
                      Deactivated(u) /\ accounts[u].email = input.email
                /\ loginUser(input)
                => response'.error = "Account is deactivated"
       /\ \A u \in users :
             Deactivated(u) /\ ~Deactivated(u)' =>
                \E input \in UpdateUserInputs :
                   /\ input.id = u
                   /\ "is_active" \in DOMAIN input
                   /\ input.is_active
                   /\ updateUser(input)]_vars

C26_Witness ==
    /\ response.op = "loginUser"
    /\ response.error = "Account is deactivated"
    /\ \E u \in users :
          /\ Deactivated(u)
          /\ accounts[u].email = "c@example.com"

C26_WitnessEmailReused ==
    /\ response.op = "loginUser"
    /\ response.error = ""
    /\ serial.users > InitialSerial.users
    /\ response.result.email = "a@example.com"
    /\ response.result.userId = 3

----------------------------------------------------------------------------
(* Claims about notifications *)

NotificationIds == {notifications[i].id : i \in 1..Len(notifications)}

NotificationOf(id) ==
    notifications[CHOOSE i \in 1..Len(notifications) :
                     notifications[i].id = id]

UnreadOf(u) ==
    {id \in NotificationIds :
        NotificationOf(id).user_id = u /\ ~NotificationOf(id).is_read}

\* C27: getUnreadNotificationCount(u) returns the number of stored
\* notifications of u with is_read = false; every created notification
\* starts unread; after markAllNotificationsAsRead(u) the count for u is 0
\* while the notifications of every other user are unchanged; and no handler
\* turns a read notification back to unread.
C27_UnreadCount ==
    [][/\ response'.op = "getUnreadNotificationCount"
              /\ response'.error = "" =>
             response'.result.count = Cardinality(UnreadOf(response'.userId))
       /\ \A id \in NotificationIds' \ NotificationIds :
             ~NotificationOf(id)'.is_read
       /\ response'.op = "markAllNotificationsAsRead" =>
             \A userId \in 1..3 :
                userId \in users /\ markAllNotificationsAsRead(userId) =>
                   /\ UnreadOf(userId)' = {}
                   /\ \A id \in NotificationIds :
                         NotificationOf(id).user_id # userId =>
                            /\ id \in NotificationIds'
                            /\ NotificationOf(id)' = NotificationOf(id)
       /\ \A id \in NotificationIds \cap NotificationIds' :
             NotificationOf(id).is_read => NotificationOf(id)'.is_read]_vars

C27_Witness ==
    /\ Answered("getUnreadNotificationCount")
    /\ response.result.count = 1
    /\ Len(notifications) = 2
    /\ \E i \in 1..2 : /\ notifications[i].user_id = response.userId
                        /\ notifications[i].is_read

C27_WitnessMarkAll ==
    /\ Answered("markAllNotificationsAsRead")
    /\ \E i, j \in 1..Len(notifications) :
          /\ notifications[i].is_read
          /\ ~notifications[j].is_read
          /\ notifications[i].user_id # notifications[j].user_id

----------------------------------------------------------------------------
(* Claims about the expense workflow *)

\* C28: from an empty store and through the handlers alone, every stored
\* expense has status PENDING and approved_by = null: createExpense inserts
\* PENDING, and approveExpense, updateExpense and deleteExpense return a
\* value without writing to the store; so getBudgetOverview(u).total_spent
\* is 0.
C28_HandlersNeverApprove ==
    [][/\ \A i \in 1..Len(expenses') :
             /\ expenses'[i].status = "PENDING"
             /\ expenses'[i].approved_by = NULL
       /\ response'.op \in {"approveExpense", "updateExpense",
                            "deleteExpense"} =>
             response'.error = "" /\ store' = store
       /\ response'.op = "getBudgetOverview" =>
             response'.result.total_spent = 0]_vars

C28_Witness ==
    /\ response.op = "approveExpense"
    /\ response.result.status = "APPROVED"
    /\ \E i \in 1..Len(expenses) : expenses[i].id = response.result.id

C28_WitnessOverview ==
    /\ Answered("getBudgetOverview")
    /\ response.result.total_budget > 0
    /\ \E i \in 1..Len(expenses) :
          /\ expenses[i].user_id = response.userId
          /\ expenses[i].amount > 0

\* C30: after any sequence of handler calls every stored reference
\* resolves: each budget's category_id (when non-null) and each expense's
\* category_id name a stored category, each expense's team_id (when
\* non-null) and each team_members row's team_id name a stored team, and
\* each notification's related_expense_id (when non-null) names a stored
\* expense.
C30_ReferencesResolve ==
    /\ \A i \in 1..Len(budgets) :
          ~Missing(budgets[i].category_id, DOMAIN categories)
    /\ \A i \in 1..Len(expenses) :
          /\ expenses[i].category_id \in DOMAIN categories
          /\ ~Missing(expenses[i].team_id, teams)
    /\ \A i \in 1..Len(team_members) : team_members[i].team_id \in teams
    /\ \A i \in 1..Len(notifications) :
          ~Missing(notifications[i].related_expense_id, ExpenseIds)

\* the store refused to delete a team that an expense names
C30_Witness ==
    /\ response.op = "deleteTeam"
    /\ response.error = ForeignKeyViolation
    /\ \E i \in 1..Len(expenses) : expenses[i].team_id \in teams

\* the store refused to delete a category that only a budget names
C30_WitnessBudget ==
    /\ response.op = "deleteCategory"
    /\ response.error = ForeignKeyViolation
    /\ \E i \in 1..Len(budgets) : budgets[i].category_id \in DOMAIN categories

\* a team went and took its members along
C30_WitnessCascade ==
    /\ response = Returned("deleteTeam", [success |-> TRUE])
    /\ serial.team_members > InitialSerial.team_members
    /\ team_members = <<>>

\* C29: team_members never holds two rows with the same (team_id,
\* user_id), also when addTeamMember calls for the same team and user run
\* at the same time.
C29_OneMembershipPerPairAlways ==
    \A teamId \in {1, 2}, userId \in {1, 2, 3} :
       Cardinality(MembershipsOf(teamId, userId)) <= 1

=============================================================================
